---------------------------- MODULE Spec2Model ----------------------------
(***************************************************************************)
(* Connectivity resilience core of the measurement probe firmware:         *)
(*   - RtcAuthToken          (core/rtc_storage.hpp)                        *)
(*   - DeviceAuthProvider    (cloud/device_auth.hpp)                       *)
(*   - RetryTransport        (transport/retry.hpp)                         *)
(*   - HttpTransport         (transport/http_transport.hpp)                *)
(*   - WifiManager           (network/src/wifi_manager.cpp)                *)
(*   - CloudClient, CommandService, CommandHandler, CloudManager (cloud/)  *)
(*   - MeasurementProbe      (application/src/app.cpp)                     *)
(*                                                                         *)
(* Each component has its own specification (SpecAuth, SpecRetry, ...).    *)
(* A specification leaves the variables of the other components at their  *)
(* initial value.  Time is counted in seconds.                             *)
(***************************************************************************)
EXTENDS Integers, Sequences, FiniteSets, TLC

VARIABLES
    now,        \* std::chrono::system_clock::now(), in seconds
    auth,       \* DeviceAuthProvider: state_, last_error_, and *rtc_token_
    lastCall,   \* history: the last auth operation, its entry state, result, requests
    sawRevoked, \* history: state_ was Revoked and only authenticate()/refresh() ran since
    policy_,    \* RetryTransport: the retry policy
    script,     \* the wrapped transport: script[i] is the outcome of its i-th send()
    attempts,   \* RetryTransport::send: local attempts
    delay,      \* RetryTransport::send: local delay, in ms
    base_calls, \* history: invocations of base_.send() by the running send()
    slept,      \* history: the delays send() has waited, in order
    send_ret,   \* the value send() returned; NoOutcome while it runs
    send_pc,    \* position of the caller of send(): "idle", "loop" or "done"
    wifi,       \* WifiManager: its members, the storage, and what the last operation published
    wifiOp,     \* history: the last WifiManager operation or handler
    chain,      \* history: disconnect events handled since Disconnected with retry 0; -1: not tracked
    sched,      \* history: reconnect timer starts during the chain
    cloud,      \* CloudManager with its CloudClient; what the last operation sent and published
    cloudOp,    \* history: the last CloudManager operation
    cmd_buffer, \* poll_commands(): cmd_buffer of the running or last poll cycle
    cmd_pos,    \* poll_commands(): position of process_all() in cmd_buffer; 0: no cycle runs
    acked,      \* history: per command processed in the cycle, what process_all() did
    authAsked,  \* history: a request went to /auth/device or /auth/refresh
    app,        \* MeasurementProbe: cloud_, its state, the pending flags, the log timer
    main_pc,    \* run_continuous_mode(): the main task's position in the loop
    http_async, \* HttpTransport: async task, async_queue_, the request in the worker
    retry_async \* RetryTransport: the AsyncRetryState of each send_async call

authVars == <<now, auth, lastCall, sawRevoked>>
retryVars == <<policy_, script, attempts, delay, base_calls, slept, send_ret, send_pc>>

wifiVars == <<wifi, wifiOp, chain, sched>>

cloudVars == <<cloud, cloudOp, cmd_buffer, cmd_pos, acked, authAsked>>

appVars == <<app, main_pc>>
asyncVars == <<http_async, retry_async>>

vars == <<authVars, retryVars, wifiVars, cloudVars, appVars, asyncVars>>
nonAuthVars == <<retryVars, wifiVars, cloudVars, appVars, asyncVars>>
nonRetryVars == <<authVars, wifiVars, cloudVars, appVars, asyncVars>>
nonWifiVars == <<authVars, retryVars, cloudVars, appVars, asyncVars>>
nonCloudVars == <<lastCall, sawRevoked, retryVars, wifiVars, appVars, asyncVars>>
nonAppVars == <<authVars, retryVars, wifiVars, cloudVars, asyncVars>>
nonAsyncVars == <<authVars, retryVars, wifiVars, cloudVars, appVars>>

----------------------------------------------------------------------------
(* Bounds of the model *)

MaxTime == 3
MaxTokenByte == 1
ShortTtl == 2
MaxRetries == 2
MaxWifiRetries == 2
MaxChain == 4
MaxCommands == 2
MaxHandlers == 1
MaxRequests == 2
MaxAsyncRetries == 1

(* Program constants *)

OK == 200
NO_CONTENT == 204
UNAUTHORIZED == 401
FORBIDDEN == 403
TOO_MANY_REQUESTS == 429
SERVER_ERROR == 500
DEFAULT_SEED == 46033
DEFAULT_EXPIRES_IN == 3600
TOKEN_REFRESH_BUFFER == 300

AuthState == {"Unauthenticated", "Authenticated", "TokenExpired", "Revoked"}

AuthError == {"None", "NoCredentials", "NetworkError", "InvalidCredentials",
              "DeviceRevoked", "RateLimited", "ParseError", "ServerError"}

AUTH_DEVICE == "/auth/device"
AUTH_REFRESH == "/auth/refresh"

Min(a, b) == IF a <= b THEN a ELSE b

----------------------------------------------------------------------------
(* core::Crc32: a checksum folded over the bytes, starting from the seed.  *)
(* The ROM routine is replaced by a multiplicative checksum kept to 16     *)
(* bits (DEFAULT_SEED is the low half of 0x9E83B3D1).                      *)

RECURSIVE Crc32Update(_, _)
Crc32Update(state, data) ==
    IF data = <<>> THEN state
    ELSE Crc32Update((state * 33 + Head(data) + 1) % (2^16), Tail(data))

Crc32Compute(data) == Crc32Update(DEFAULT_SEED, data)

----------------------------------------------------------------------------
(* core::RtcString *)

RtcStringZero == [crc |-> 0, length |-> 0, data |-> <<>>]

RtcString_is_valid_LengthOnly(s) == s.length > 0

RtcString_is_valid(s) ==
    s.length > 0 /\ s.crc = Crc32Compute(<<s.length>> \o SubSeq(s.data, 1, s.length))

RtcString_set(str) ==
    [crc |-> Crc32Compute(<<Len(str)>> \o str), length |-> Len(str), data |-> str]

RtcString_clear(s) == [s EXCEPT !.crc = 0, !.length = 0]

(* core::RtcTimestamp *)

RtcTimestampZero == [crc |-> 0, epoch_ms |-> 0]

RtcTimestamp_is_valid(t) == t.crc = Crc32Compute(<<t.epoch_ms>>)

RtcTimestamp_get(t) == IF ~RtcTimestamp_is_valid(t) THEN 0 ELSE t.epoch_ms

RtcTimestamp_set(tp) == [crc |-> Crc32Compute(<<tp>>), epoch_ms |-> tp]

RtcTimestamp_clear(t) == [t EXCEPT !.crc = 0]

(* core::RtcAuthToken *)

RtcAuthTokenZero == [token |-> RtcStringZero, expires_at |-> RtcTimestampZero]

RtcAuthToken_is_valid(r, t) ==
    IF ~RtcString_is_valid(r.token) THEN FALSE
    ELSE IF ~RtcTimestamp_is_valid(r.expires_at) THEN TRUE
    ELSE t < RtcTimestamp_get(r.expires_at)

RtcAuthToken_needs_refresh(r, t, buffer) ==
    IF ~RtcString_is_valid(r.token) THEN TRUE
    ELSE IF ~RtcTimestamp_is_valid(r.expires_at) THEN FALSE
    ELSE t >= RtcTimestamp_get(r.expires_at) - buffer

RtcAuthToken_set(r, tok, exp) ==
    [token |-> RtcString_set(tok),
     expires_at |-> IF exp # 0 THEN RtcTimestamp_set(exp)
                    ELSE RtcTimestamp_clear(r.expires_at)]

RtcAuthToken_clear(r) ==
    [token |-> RtcString_clear(r.token),
     expires_at |-> RtcTimestamp_clear(r.expires_at)]

----------------------------------------------------------------------------
(* What the backend can answer to one request.                             *)
(*   kind "client_invalid": the HTTP client could not be created (no       *)
(*                          request leaves the device)                     *)
(*   kind "neterr":         perform() failed (the request was issued)      *)
(*   kind "http":           a status code and a body                       *)
(* A 2xx body of an auth endpoint either has no "token" field or carries a *)
(* token string (possibly empty) and an optional expires_in.               *)

TokenStrings == {<<>>} \cup {<<b>> : b \in 1..MaxTokenByte}

(* expires_in of a body: -1 when the field is absent *)
ExpiresIn == {-1, 0, ShortTtl}

NoBody == [has_token |-> FALSE, token |-> <<>>, expires_in |-> -1]

AuthBodies ==
    {NoBody} \cup
    [has_token : {TRUE}, token : TokenStrings, expires_in : ExpiresIn]

AuthResponses ==
    {[kind |-> "client_invalid", code |-> 0, body |-> NoBody],
     [kind |-> "neterr", code |-> 0, body |-> NoBody]}
    \cup {[kind |-> "http", code |-> c, body |-> NoBody] :
            c \in {UNAUTHORIZED, FORBIDDEN, TOO_MANY_REQUESTS, SERVER_ERROR}}
    \cup {[kind |-> "http", code |-> OK, body |-> b] : b \in AuthBodies}

(* One request as it leaves the device: the path and the auth state held   *)
(* when it was sent.                                                       *)
Req(path, st) == [path |-> path, state |-> st]

(* The result of an internal step: the provider afterwards, the status     *)
(* returned, and the requests issued.                                      *)
Res(a, ok, wire) == [a |-> a, ok |-> ok, wire |-> wire]

----------------------------------------------------------------------------
(* cloud::DeviceAuthProvider.  rtc_token_ is never null in this program    *)
(* (CloudManager passes the address of its member).                        *)

AuthNew(rtc) == [state_ |-> "Unauthenticated", last_error_ |-> "None", rtc |-> rtc]

parse_auth_response(a, t, body) ==
    IF ~body.has_token THEN Res(a, FALSE, <<>>)
    ELSE LET expires_in == IF body.expires_in = -1 THEN DEFAULT_EXPIRES_IN
                           ELSE body.expires_in
             expires_at == t + expires_in
         IN  Res([a EXCEPT !.rtc = RtcAuthToken_set(a.rtc, body.token, expires_at)],
                 TRUE, <<>>)

handle_auth_response(a, t, status_code, body) ==
    IF status_code = FORBIDDEN
      THEN Res([a EXCEPT !.state_ = "Revoked", !.last_error_ = "DeviceRevoked"], FALSE, <<>>)
    ELSE IF status_code = UNAUTHORIZED
      THEN Res([a EXCEPT !.last_error_ = "InvalidCredentials"], FALSE, <<>>)
    ELSE IF status_code = TOO_MANY_REQUESTS
      THEN Res([a EXCEPT !.last_error_ = "RateLimited"], FALSE, <<>>)
    ELSE IF status_code < 200 \/ status_code >= 300
      THEN Res([a EXCEPT !.last_error_ = "ServerError"], FALSE, <<>>)
    ELSE LET p == parse_auth_response(a, t, body)
         IN  IF ~p.ok THEN Res([p.a EXCEPT !.last_error_ = "ParseError"], FALSE, <<>>)
             ELSE Res([p.a EXCEPT !.state_ = "Authenticated", !.last_error_ = "None"],
                      TRUE, <<>>)

do_authenticate(a, t, creds_valid, resp) ==
    LET Sent(h) == Res(h.a, h.ok, <<Req(AUTH_DEVICE, a.state_)>>)
    IN  IF ~creds_valid
          THEN Res([a EXCEPT !.last_error_ = "NoCredentials"], FALSE, <<>>)
        ELSE IF resp.kind = "client_invalid"
          THEN Res([a EXCEPT !.last_error_ = "NetworkError"], FALSE, <<>>)
        ELSE IF resp.kind = "neterr"
          THEN Res([a EXCEPT !.last_error_ = "NetworkError"], FALSE,
                   <<Req(AUTH_DEVICE, a.state_)>>)
        ELSE Sent(handle_auth_response(a, t, resp.code, resp.body))

do_token_refresh(a, t, resp) ==
    LET Sent(h) == Res(h.a, h.ok, <<Req(AUTH_REFRESH, a.state_)>>)
    IN  IF ~RtcAuthToken_is_valid(a.rtc, t) THEN Res(a, FALSE, <<>>)
        ELSE IF resp.kind = "client_invalid" THEN Res(a, FALSE, <<>>)
        ELSE IF resp.kind = "neterr" THEN Res(a, FALSE, <<Req(AUTH_REFRESH, a.state_)>>)
        ELSE IF resp.code = UNAUTHORIZED
          THEN Res(a, FALSE, <<Req(AUTH_REFRESH, a.state_)>>)
        ELSE Sent(handle_auth_response(a, t, resp.code, resp.body))

(* refresh(): r1 answers /auth/refresh, r2 answers /auth/device *)
refresh(a, t, creds_valid, r1, r2) ==
    LET After(r, d) == Res(d.a, d.ok, r.wire \o d.wire)
        Fallback(r) == IF r.ok THEN r
                       ELSE After(r, do_authenticate(r.a, t, creds_valid, r2))
    IN  IF a.state_ = "Revoked" THEN Res(a, FALSE, <<>>)
        ELSE IF RtcAuthToken_is_valid(a.rtc, t)
          THEN Fallback(do_token_refresh(a, t, r1))
        ELSE do_authenticate(a, t, creds_valid, r2)

(* authenticate(): the result carries the AuthResult {state, error} *)
AuthResult(a, st, err, wire) == [a |-> a, state |-> st, error |-> err, wire |-> wire]

authenticate_NoFastPath(a, t, creds_valid, r) ==
    LET Done(d) == IF ~d.ok THEN AuthResult(d.a, d.a.state_, d.a.last_error_, d.wire)
                   ELSE AuthResult(d.a, "Authenticated", "None", d.wire)
    IN  Done(do_authenticate(a, t, creds_valid, r))

authenticate(a, t, creds_valid, r) ==
    LET Done(d) == IF ~d.ok THEN AuthResult(d.a, d.a.state_, d.a.last_error_, d.wire)
                   ELSE AuthResult(d.a, "Authenticated", "None", d.wire)
    IN  IF RtcAuthToken_is_valid(a.rtc, t)
          THEN AuthResult([a EXCEPT !.state_ = "Authenticated"],
                          "Authenticated", "None", <<>>)
        ELSE Done(do_authenticate(a, t, creds_valid, r))

handle_response_status_KeepToken(a, status_code) ==
    IF status_code = UNAUTHORIZED THEN [a EXCEPT !.state_ = "TokenExpired"]
    ELSE IF status_code = FORBIDDEN
      THEN [a EXCEPT !.rtc = RtcAuthToken_clear(a.rtc), !.state_ = "Revoked"]
    ELSE a

handle_response_status(a, status_code) ==
    IF status_code = UNAUTHORIZED
      THEN [a EXCEPT !.rtc = RtcAuthToken_clear(a.rtc), !.state_ = "TokenExpired"]
    ELSE IF status_code = FORBIDDEN
      THEN [a EXCEPT !.rtc = RtcAuthToken_clear(a.rtc), !.state_ = "Revoked"]
    ELSE a

clear_token(a) ==
    [a EXCEPT !.rtc = RtcAuthToken_clear(a.rtc), !.state_ = "Unauthenticated"]

needs_refresh_IgnoresRevoked(a, t) ==
    RtcAuthToken_needs_refresh(a.rtc, t, TOKEN_REFRESH_BUFFER)

needs_refresh(a, t) ==
    IF a.state_ = "Revoked" THEN FALSE
    ELSE RtcAuthToken_needs_refresh(a.rtc, t, TOKEN_REFRESH_BUFFER)

is_revoked(a) == a.state_ = "Revoked"

(* get_auth_header(): "ok" with the bearer token, or ESP_ERR_INVALID_STATE *)
get_auth_header(a, t) ==
    IF a.state_ = "Revoked" THEN [ok |-> FALSE, value |-> <<>>]
    ELSE IF ~RtcAuthToken_is_valid(a.rtc, t) THEN [ok |-> FALSE, value |-> <<>>]
    ELSE [ok |-> TRUE, value |-> SubSeq(a.rtc.token.data, 1, a.rtc.token.length)]

----------------------------------------------------------------------------
(* SpecAuth: one DeviceAuthProvider with valid credentials, its RTC token, *)
(* the clock, and a backend that may answer anything.                      *)

(* The RTC region at construction: zeroed (cold boot) or left by the       *)
(* previous wake cycle (a token with or without expiry).                   *)
RtcAtBoot ==
    {RtcAuthTokenZero}
    \cup {RtcAuthToken_set(RtcAuthTokenZero, <<1>>, e) :
            e \in {0, 1 + ShortTtl, MaxTime + TOKEN_REFRESH_BUFFER, 1 + DEFAULT_EXPIRES_IN}}

NoCall == [op |-> "none", pre_valid |-> FALSE,
           ok |-> TRUE, state |-> "Unauthenticated", wire |-> <<>>]

Call(op, a, t, ok, st, wire) ==
    [op |-> op, pre_valid |-> RtcAuthToken_is_valid(a.rtc, t),
     ok |-> ok, state |-> st, wire |-> wire]

(* sawRevoked after an operation: authenticate()/refresh() keep it, any    *)
(* other operation restarts it from the state it leaves.                   *)
Latch(keep, a2) == (keep /\ sawRevoked) \/ a2.state_ = "Revoked"

AuthIdle ==
    /\ now = 1
    /\ auth = AuthNew(RtcAuthTokenZero)
    /\ lastCall = NoCall
    /\ sawRevoked = FALSE

AuthInit ==
    /\ now = 1
    /\ \E rtc \in RtcAtBoot : auth = AuthNew(rtc)
    /\ lastCall = NoCall
    /\ sawRevoked = FALSE

Tick ==
    /\ now < MaxTime
    /\ now' = now + 1
    /\ UNCHANGED <<auth, lastCall, sawRevoked>>
    /\ UNCHANGED nonAuthVars

(* The answers an operation can see: one placeholder when it sends nothing *)
Unasked == [kind |-> "neterr", code |-> 0, body |-> NoBody]

AnswersIf(asked) == IF asked THEN AuthResponses ELSE {Unasked}

Authenticate ==
    \E r \in AnswersIf(~RtcAuthToken_is_valid(auth.rtc, now)) :
    \E res \in {authenticate(auth, now, TRUE, r)} :
        /\ auth' = res.a
        /\ lastCall' = Call("authenticate", auth, now, res.state = "Authenticated",
                            res.state, res.wire)
        /\ sawRevoked' = Latch(TRUE, res.a)
        /\ UNCHANGED now
        /\ UNCHANGED nonAuthVars

Refresh ==
    \E r1 \in AnswersIf(auth.state_ # "Revoked" /\ RtcAuthToken_is_valid(auth.rtc, now)) :
    \E r2 \in AnswersIf(auth.state_ # "Revoked" /\ ~do_token_refresh(auth, now, r1).ok) :
    \E res \in {refresh(auth, now, TRUE, r1, r2)} :
        /\ auth' = res.a
        /\ lastCall' = Call("refresh", auth, now, res.ok, res.a.state_, res.wire)
        /\ sawRevoked' = Latch(TRUE, res.a)
        /\ UNCHANGED now
        /\ UNCHANGED nonAuthVars

HandleResponseStatus ==
    \E code \in {OK, NO_CONTENT, UNAUTHORIZED, FORBIDDEN, TOO_MANY_REQUESTS, SERVER_ERROR} :
        LET a2 == handle_response_status(auth, code)
        IN  /\ auth' = a2
            /\ lastCall' = Call("handle_response_status", auth, now, TRUE, a2.state_, <<>>)
            /\ sawRevoked' = Latch(FALSE, a2)
            /\ UNCHANGED now
            /\ UNCHANGED nonAuthVars

ClearToken ==
    LET a2 == clear_token(auth)
    IN  /\ auth' = a2
        /\ lastCall' = Call("clear_token", auth, now, TRUE, a2.state_, <<>>)
        /\ sawRevoked' = Latch(FALSE, a2)
        /\ UNCHANGED now
        /\ UNCHANGED nonAuthVars

GetAuthHeader ==
    /\ lastCall' = Call("get_auth_header", auth, now, get_auth_header(auth, now).ok,
                        auth.state_, <<>>)
    /\ UNCHANGED <<now, auth, sawRevoked>>
    /\ UNCHANGED nonAuthVars

NeedsRefresh ==
    /\ lastCall' = Call("needs_refresh", auth, now, needs_refresh(auth, now),
                        auth.state_, <<>>)
    /\ UNCHANGED <<now, auth, sawRevoked>>
    /\ UNCHANGED nonAuthVars

AuthNext ==
    \/ Tick
    \/ Authenticate
    \/ Refresh
    \/ HandleResponseStatus
    \/ ClearToken
    \/ GetAuthHeader
    \/ NeedsRefresh

----------------------------------------------------------------------------
(* RetryTransport, synchronous path (transport/retry.hpp) *)

(* An outcome of a transport send(): an error code, or ESP_OK and a status *)
Outcome(err, status) == [err |-> err, status |-> status]
NoOutcome == Outcome("none", 0)

BaseOutcomes ==
    {Outcome("ESP_ERR_TIMEOUT", 0), Outcome("ESP_FAIL", 0),
     Outcome("ESP_ERR_INVALID_ARG", 0), Outcome("ESP_ERR_HTTP_CONNECT", 0),
     Outcome("ESP_OK", OK), Outcome("ESP_OK", UNAUTHORIZED),
     Outcome("ESP_OK", SERVER_ERROR)}

RetryPolicy(n, on_timeout, on_server_error, on_connection_error) ==
    [max_retries |-> n, initial_delay |-> 1000, max_delay |-> 30000,
     backoff_multiplier |-> 2,
     retry_on_timeout |-> on_timeout,
     retry_on_server_error |-> on_server_error,
     retry_on_connection_error |-> on_connection_error]

is_server_error_From400(o) == o.status >= 400

is_server_error(o) == o.status >= 500

(* The esp_err_t value behind each error name (ESP-IDF: esp_err.h,          *)
(* esp_http_client.h, esp_tls_errors.h)                                      *)
ErrNames ==
    {"ESP_FAIL", "ESP_ERR_NO_MEM", "ESP_ERR_INVALID_ARG", "ESP_ERR_INVALID_STATE",
     "ESP_ERR_INVALID_SIZE", "ESP_ERR_NOT_FOUND", "ESP_ERR_TIMEOUT",
     "ESP_ERR_FLASH_BASE", "ESP_ERR_HTTP_BASE", "ESP_ERR_HTTP_CONNECT",
     "ESP_ERR_HTTP_CONNECTION_CLOSED", "ESP_ERR_ESP_TLS_BASE"}

esp_err_t(err) ==
    CASE err = "ESP_FAIL" -> -1
      [] err = "ESP_ERR_NO_MEM" -> 257
      [] err = "ESP_ERR_INVALID_ARG" -> 258
      [] err = "ESP_ERR_INVALID_STATE" -> 259
      [] err = "ESP_ERR_INVALID_SIZE" -> 260
      [] err = "ESP_ERR_NOT_FOUND" -> 261
      [] err = "ESP_ERR_TIMEOUT" -> 263
      [] err = "ESP_ERR_FLASH_BASE" -> 24576
      [] err = "ESP_ERR_HTTP_BASE" -> 28672
      [] err = "ESP_ERR_HTTP_CONNECT" -> 28674
      [] err = "ESP_ERR_HTTP_CONNECTION_CLOSED" -> 28680
      [] err = "ESP_ERR_ESP_TLS_BASE" -> 32768

is_retryable_error_HttpAsTimeout(p, err) ==
    CASE err = "ESP_ERR_TIMEOUT" -> p.retry_on_timeout
      [] err \in {"ESP_ERR_INVALID_STATE", "ESP_FAIL", "ESP_ERR_NO_MEM"} ->
             p.retry_on_connection_error
      [] OTHER ->
             IF esp_err_t(err) >= 28672 /\ esp_err_t(err) <= 28927
               THEN p.retry_on_timeout
               ELSE FALSE

is_retryable_error(p, err) ==
    CASE err = "ESP_ERR_TIMEOUT" -> p.retry_on_timeout
      [] err \in {"ESP_ERR_INVALID_STATE", "ESP_FAIL", "ESP_ERR_NO_MEM"} ->
             p.retry_on_connection_error
      [] OTHER ->
             IF esp_err_t(err) >= 28672 /\ esp_err_t(err) <= 28927  \* 0x7000..0x70FF
               THEN p.retry_on_connection_error
               ELSE FALSE

should_retry_Inclusive(p, att) == att <= p.max_retries

should_retry(p, att) == att < p.max_retries

(* wait_and_backoff(): the next values of <<attempts, delay>> *)
wait_and_backoff(p, att, d) ==
    [attempts |-> (att + 1) % 256,
     delay |-> Min(d * p.backoff_multiplier, p.max_delay)]

(* send() as a function of the results base_.send() gives in turn: done   *)
(* tells that it returned within them, ret what it returned, calls how    *)
(* many base_.send() calls it made and slept the delays it waited          *)
RECURSIVE send_loop(_, _, _, _, _, _)
send_loop(p, results, att, d, calls, naps) ==
    IF calls >= Len(results)
      THEN [done |-> FALSE, ret |-> NoOutcome, calls |-> calls, slept |-> naps]
    ELSE LET result == results[calls + 1]
             again  == IF result.err = "ESP_OK"
                         THEN /\ is_server_error(result)
                              /\ p.retry_on_server_error
                              /\ should_retry(p, att)
                         ELSE /\ is_retryable_error(p, result.err)
                              /\ should_retry(p, att)
             w == wait_and_backoff(p, att, d)
         IN  IF again
               THEN send_loop(p, results, w.attempts, w.delay, calls + 1, Append(naps, d))
               ELSE [done |-> TRUE, ret |-> result, calls |-> calls + 1, slept |-> naps]

retry_send(p, results) == send_loop(p, results, 0, p.initial_delay, 0, <<>>)

ScriptLen == MaxRetries + 2

Scripts == [1..ScriptLen -> BaseOutcomes]

RetryIdle ==
    /\ policy_ = RetryPolicy(3, TRUE, TRUE, TRUE)
    /\ script = <<>>
    /\ attempts = 0
    /\ delay = 0
    /\ base_calls = 0
    /\ slept = <<>>
    /\ send_ret = NoOutcome
    /\ send_pc = "idle"

RetryInit ==
    /\ \E n \in 0..MaxRetries : \E t, s, c \in BOOLEAN :
           policy_ = RetryPolicy(n, t, s, c)
    /\ script \in Scripts
    /\ attempts = 0
    /\ delay = 0
    /\ base_calls = 0
    /\ slept = <<>>
    /\ send_ret = NoOutcome
    /\ send_pc = "idle"

(* send(): entry, the locals are initialised *)
Send_Call ==
    /\ send_pc = "idle"
    /\ attempts' = 0
    /\ delay' = policy_.initial_delay
    /\ send_pc' = "loop"
    /\ UNCHANGED <<policy_, script, base_calls, slept, send_ret>>
    /\ UNCHANGED nonRetryVars

(* send(): one iteration of the loop, base_.send() included *)
Send_Loop ==
    /\ send_pc = "loop"
    /\ base_calls < Len(script)
    /\ LET result == script[base_calls + 1]
           again  == IF result.err = "ESP_OK"
                       THEN /\ is_server_error(result)
                            /\ policy_.retry_on_server_error
                            /\ should_retry(policy_, attempts)
                       ELSE /\ is_retryable_error(policy_, result.err)
                            /\ should_retry(policy_, attempts)
           w == wait_and_backoff(policy_, attempts, delay)
       IN  /\ base_calls' = base_calls + 1
           /\ IF again
                THEN /\ slept' = Append(slept, delay)
                     /\ attempts' = w.attempts
                     /\ delay' = w.delay
                     /\ UNCHANGED <<send_ret, send_pc>>
                ELSE /\ send_ret' = result
                     /\ send_pc' = "done"
                     /\ UNCHANGED <<slept, attempts, delay>>
    /\ UNCHANGED <<policy_, script>>
    /\ UNCHANGED nonRetryVars

RetryNext ==
    \/ Send_Call
    \/ Send_Loop

----------------------------------------------------------------------------
(* WifiManager (network/src/wifi_manager.cpp) *)

WifiState == {"Idle", "Disconnected", "Connecting", "Connected", "Provisioning", "Failed"}

(* WifiCredentials: the SSID; the empty string is ssid[0] == 0 *)
NoCredentials == ""
WifiCredentials_is_valid(c) == c # ""

(* uint32_t as two 16-bit halves: the arithmetic below wraps at 2^32 *)
U32(hi, lo) == [hi |-> hi, lo |-> lo]

u32_lt(a, b) == a.hi < b.hi \/ (a.hi = b.hi /\ a.lo < b.lo)

u32_mul(a, k) ==
    LET l == a.lo * k
    IN  U32((a.hi * k + l \div 65536) % 65536, l % 65536)

u32_min(a, b) == IF u32_lt(b, a) THEN b ELSE a

WifiConfig(n, initial, max) ==
    [max_retries |-> n, initial_backoff_ms |-> initial, max_backoff_ms |-> max]

kBackoffMultiplier == 2

(* ConnectionInfo: the address with gateway and netmask (0 is 0.0.0.0), and *)
(* the signal level and channel of the access point                         *)
ConnectionInfo(ip, rssi) == [ip |-> ip, rssi |-> rssi]

NoConnectionInfo == ConnectionInfo(0, 0)

TimerStopped == [running |-> FALSE, delay |-> U32(0, 0)]

WifiNew ==
    [initialized_ |-> FALSE, state_ |-> "Idle",
     config_ |-> WifiConfig(0, U32(0, 1000), U32(0, 60000)),
     conn_info_ |-> NoConnectionInfo,
     pending_creds_ |-> NoCredentials, retry_count_ |-> 0,
     state_callback_ |-> FALSE,     \* a callback is registered
     reconnect_timer_ |-> TimerStopped,
     prov_timeout_timer_ |-> FALSE, \* running
     prov_sub_ |-> FALSE,           \* subscribed to WIFI_PROV_EVENT
     prov_mgr_ |-> FALSE,           \* the provisioning manager is initialised
     stored |-> NoCredentials,      \* the SSID kept by storage_
     published |-> <<>>,            \* history: events published by the last operation
     arms |-> 0,                    \* history: reconnect timer starts by the last operation
     connects |-> 0,                \* history: esp_wifi_connect() calls of the last operation
     updates |-> <<>>,              \* history: <<old, new>> of every set_state() of the last operation
                                    \*          (kept while a callback is registered)
     callbacks |-> <<>>,            \* history: <<old, new>> handed to the callback by the last operation
     ret |-> "none",                \* history: what the last operation returned
     at |-> "idle",                 \* where the event task stands inside wifi_event_handler()
     scope |-> {},                  \* which of the histories below are kept, which inputs vary
     got |-> NoConnectionInfo,      \* "addr": what the IP_EVENT_STA_GOT_IP just handled carried
                                    \*         and, where the driver answered, the signal level
     manual |-> FALSE,              \* "manual": disconnect() succeeded; since then no connect() or
                                    \*           start_provisioning(), no IP or provisioning event
     failed_events |-> 0,           \* "session": ProvisioningFailed events of the provisioning session (at most 2 counted)
     last_delay |-> U32(0, 0)]      \* "wrap": the delay of the last reconnect timer start since
                                    \*         the retry state was reset

(* A status with the manager it leaves *)
WRet(w, ok) == [w |-> w, ok |-> ok, err |-> IF ok THEN "ESP_OK" ELSE "ESP_FAIL"]

WErr(w, err) == [w |-> w, ok |-> FALSE, err |-> err]

set_state_Always(w, new_state) ==
    [w EXCEPT !.state_ = new_state,
              !.updates = IF w.state_callback_
                            THEN Append(@, <<w.state_, new_state>>) ELSE @,
              !.callbacks = IF w.state_callback_
                              THEN Append(@, <<w.state_, new_state>>) ELSE @]

set_state(w, new_state) ==
    [w EXCEPT !.state_ = new_state,
              !.updates = IF w.state_callback_
                            THEN Append(@, <<w.state_, new_state>>) ELSE @,
              !.callbacks = IF w.state_ # new_state /\ w.state_callback_
                              THEN Append(@, <<w.state_, new_state>>) ELSE @]

publish_event(w, e) ==
    [w EXCEPT !.published = Append(@, e),
              !.failed_events = IF e = "ProvisioningFailed" /\ "session" \in w.scope
                                  THEN Min(@ + 1, 2) ELSE @]

RECURSIVE BackoffLoop(_, _, _)
BackoffLoop(w, i, backoff) ==
    IF i < w.retry_count_ /\ u32_lt(backoff, w.config_.max_backoff_ms)
      THEN BackoffLoop(w, i + 1, u32_mul(backoff, kBackoffMultiplier))
      ELSE backoff

calculate_backoff(w) ==
    u32_min(BackoffLoop(w, 0, w.config_.initial_backoff_ms), w.config_.max_backoff_ms)

reset_retry_state(w) == [w EXCEPT !.retry_count_ = 0, !.reconnect_timer_ = TimerStopped]

schedule_reconnect_Late(w, backoff_ms) ==
    IF ~WifiCredentials_is_valid(w.pending_creds_) THEN w
    ELSE IF w.config_.max_retries # 0 /\ w.retry_count_ > w.config_.max_retries
      THEN publish_event(set_state(w, "Failed"), "WifiConnectionFailed")
    ELSE [w EXCEPT !.retry_count_ = (@ + 1) % 256,
                   !.reconnect_timer_ = [running |-> TRUE, delay |-> backoff_ms],
                   !.arms = @ + 1]

schedule_reconnect(w, backoff_ms) ==
    IF ~WifiCredentials_is_valid(w.pending_creds_) THEN w
    ELSE IF w.config_.max_retries # 0 /\ w.retry_count_ >= w.config_.max_retries
      THEN publish_event(set_state(w, "Failed"), "WifiConnectionFailed")
    ELSE [w EXCEPT !.retry_count_ = (@ + 1) % 256,
                   !.reconnect_timer_ = [running |-> TRUE, delay |-> backoff_ms],
                   !.arms = @ + 1]

(* start_connect(): set_config_ok and connect_ok are the driver's answers *)
start_connect(w, creds, set_config_ok, connect_ok) ==
    LET w1 == [w EXCEPT !.pending_creds_ = creds]
        w2 == [set_state(w1, "Connecting") EXCEPT !.connects = @ + 1]
    IN  IF ~set_config_ok THEN WRet(w1, FALSE)
        ELSE IF ~connect_ok THEN WRet(set_state(w2, "Failed"), FALSE)
        ELSE WRet(w2, TRUE)

stop_provisioning(w) ==
    IF w.state_ # "Provisioning" THEN w
    ELSE set_state([w EXCEPT !.prov_timeout_timer_ = FALSE, !.prov_sub_ = FALSE,
                             !.prov_mgr_ = FALSE],
                   "Disconnected")

wifi_connect(w, set_config_ok, connect_ok) ==
    IF ~w.initialized_ THEN WErr(w, "ESP_ERR_INVALID_STATE")
    ELSE IF w.stored = NoCredentials THEN WErr(w, "ESP_ERR_NOT_FOUND")
    ELSE start_connect(w, w.stored, set_config_ok, connect_ok)

wifi_connect_creds(w, creds, save_ok, set_config_ok, connect_ok) ==
    IF ~w.initialized_ THEN WErr(w, "ESP_ERR_INVALID_STATE")
    ELSE IF ~WifiCredentials_is_valid(creds) THEN WErr(w, "ESP_ERR_INVALID_ARG")
    ELSE start_connect(IF save_ok THEN [w EXCEPT !.stored = creds] ELSE w,
                       creds, set_config_ok, connect_ok)

wifi_disconnect(w, disconnect_ok) ==
    IF ~w.initialized_ THEN WErr(w, "ESP_ERR_INVALID_STATE")
    ELSE LET w1 == reset_retry_state(IF w.state_ = "Provisioning"
                                       THEN stop_provisioning(w) ELSE w)
         IN  IF ~disconnect_ok THEN WRet(w1, FALSE)
             ELSE WRet(set_state(w1, "Disconnected"), TRUE)

start_provisioning_PopLate(w, pop_given, timeout_sec, disconnect_ok, init_ok, start_ok) ==
    IF ~w.initialized_ THEN WErr(w, "ESP_ERR_INVALID_STATE")
    ELSE LET w1 == IF w.state_ = "Connected" THEN wifi_disconnect(w, disconnect_ok).w ELSE w
         IN  IF ~pop_given THEN WErr(w1, "ESP_ERR_INVALID_ARG")
             ELSE IF ~init_ok THEN WRet(w1, FALSE)
             ELSE LET w2 == [w1 EXCEPT !.prov_sub_ = TRUE, !.prov_mgr_ = TRUE]
                  IN  IF ~start_ok THEN WRet([w2 EXCEPT !.prov_mgr_ = FALSE], FALSE)
                      ELSE LET w3 == [w2 EXCEPT !.prov_timeout_timer_ =
                                                    IF timeout_sec > 0 THEN TRUE ELSE @]
                           IN  WRet(publish_event(set_state(w3, "Provisioning"),
                                                  "ProvisioningStarted"), TRUE)

start_provisioning(w, pop_given, timeout_sec, disconnect_ok, init_ok, start_ok) ==
    IF ~w.initialized_ THEN WErr(w, "ESP_ERR_INVALID_STATE")
    ELSE IF ~pop_given THEN WErr(w, "ESP_ERR_INVALID_ARG")
    ELSE LET w1 == IF w.state_ = "Connected" THEN wifi_disconnect(w, disconnect_ok).w ELSE w
         IN  IF ~init_ok THEN WRet(w1, FALSE)
             ELSE LET w2 == [w1 EXCEPT !.prov_sub_ = TRUE, !.prov_mgr_ = TRUE]
                  IN  IF ~start_ok THEN WRet([w2 EXCEPT !.prov_mgr_ = FALSE], FALSE)
                      ELSE LET w3 == [w2 EXCEPT !.prov_timeout_timer_ =
                                                    IF timeout_sec > 0 THEN TRUE ELSE @]
                           IN  WRet(publish_event(set_state(w3, "Provisioning"),
                                                  "ProvisioningStarted"), TRUE)

on_reconnect_timer(w) ==
    IF w.state_ = "Disconnected" /\ WifiCredentials_is_valid(w.pending_creds_)
      THEN [set_state(w, "Connecting") EXCEPT !.connects = @ + 1]
      ELSE w

on_prov_timeout(w) ==
    publish_event(
        set_state(stop_provisioning(publish_event(w, "ProvisioningTimeout")), "Failed"),
        "ProvisioningFailed")

(* wifi_event_handler(), case WIFI_EVENT_STA_DISCONNECTED, up to and         *)
(* including conn_info_ = {}                                                 *)
sta_disconnected_clear(w) ==
    IF w.state_ = "Provisioning" THEN w
    ELSE [w EXCEPT !.conn_info_ = NoConnectionInfo]

(* ... and from set_state(Disconnected) on *)
sta_disconnected_rest(w) ==
    LET w1 == publish_event(set_state(w, "Disconnected"), "WifiDisconnected")
    IN  schedule_reconnect(w1, calculate_backoff(w1))

on_sta_disconnected(w) ==
    IF w.state_ = "Provisioning" THEN w
    ELSE sta_disconnected_rest(sta_disconnected_clear(w))

(* ip_event_handler(), IP_EVENT_STA_GOT_IP: ip is the address of the event, *)
(* ap_ok and rssi the answer of esp_wifi_sta_get_ap_info()                  *)
on_got_ip_KeepRetries(w, ip, ap_ok, rssi) ==
    LET w1 == [w EXCEPT !.conn_info_.ip = ip,
                        !.conn_info_.rssi = IF ap_ok THEN rssi ELSE @]
    IN  publish_event(set_state(w1, "Connected"), "WifiConnected")

on_got_ip(w, ip, ap_ok, rssi) ==
    LET w1 == [w EXCEPT !.conn_info_.ip = ip,
                        !.conn_info_.rssi = IF ap_ok THEN rssi ELSE @]
    IN  publish_event(set_state(reset_retry_state(w1), "Connected"), "WifiConnected")

ProvEvents == {"WIFI_PROV_START", "WIFI_PROV_CRED_RECV", "WIFI_PROV_CRED_FAIL",
               "WIFI_PROV_CRED_SUCCESS", "WIFI_PROV_END"}

prov_event_handler(w, event_id, creds) ==
    CASE event_id = "WIFI_PROV_START" -> publish_event(w, "BlePairingStarted")
      [] event_id = "WIFI_PROV_CRED_RECV" ->
             [publish_event(w, "BleCredentialsReceived")
                 EXCEPT !.stored = creds, !.pending_creds_ = creds]
      [] event_id = "WIFI_PROV_CRED_FAIL" ->
             publish_event(set_state(w, "Failed"), "ProvisioningFailed")
      [] event_id = "WIFI_PROV_END" ->
             publish_event([w EXCEPT !.prov_timeout_timer_ = FALSE, !.prov_sub_ = FALSE,
                                     !.prov_mgr_ = FALSE],
                           "ProvisioningComplete")
      [] OTHER -> w

wifi_init(w, config, driver_ok) ==
    IF w.initialized_ THEN WErr(w, "ESP_ERR_INVALID_STATE")
    ELSE IF ~driver_ok THEN WRet([w EXCEPT !.config_ = config], FALSE)
    ELSE WRet(set_state([w EXCEPT !.config_ = config, !.initialized_ = TRUE],
                        "Disconnected"), TRUE)

clear_credentials(w) == [w EXCEPT !.stored = NoCredentials]

on_state_change(w) == [w EXCEPT !.state_callback_ = TRUE]

CredentialsIn == {NoCredentials, "net"}

(* <<initial_backoff_ms, max_backoff_ms>>: the defaults and, in scope        *)
(* "backoff", 2^30 ms capped at 2^32 - 1 ms                                  *)
BackoffsIn ==
    {<<U32(0, 1000), U32(0, 60000)>>}
    \cup IF "backoff" \in wifi.scope THEN {<<U32(16384, 0), U32(65535, 65535)>>} ELSE {}

(* the addresses an IP event may carry: one, or two in scope "addr" *)
AddressesIn == IF "addr" \in wifi.scope THEN {1, 2} ELSE {1}

(* the answers of esp_wifi_sta_get_ap_info(): it fails in scope "addr" only *)
ApInfoIn == IF "addr" \in wifi.scope THEN BOOLEAN ELSE {TRUE}

(* The chain of the reconnect ladder starts where the manager is Disconnected *)
(* with retry counter 0, valid pending credentials and a bounded ladder.      *)
AtStart(w) ==
    /\ w.initialized_
    /\ w.state_ = "Disconnected"
    /\ w.retry_count_ = 0
    /\ WifiCredentials_is_valid(w.pending_creds_)
    /\ w.config_.max_retries > 0

WifiBegin ==
    [wifi EXCEPT !.published = <<>>, !.arms = 0, !.connects = 0, !.updates = <<>>,
                 !.callbacks = <<>>, !.ret = "none", !.got = NoConnectionInfo]

(* The end of an operation: keeps tells that it does not break a running  *)
(* chain. Operations are taken while the event task is outside its handler *)
(* or inside the state callback it is delivering.                          *)
WifiEnd(op, w2, keeps) ==
    /\ wifi.at \in {"idle", "callback"}
    /\ wifi' = IF keeps THEN w2 ELSE [w2 EXCEPT !.last_delay = U32(0, 0)]
    /\ wifiOp' = op
    /\ IF keeps /\ chain >= 0 /\ WifiCredentials_is_valid(w2.pending_creds_)
         THEN UNCHANGED <<chain, sched>>
         ELSE /\ chain' = IF AtStart(w2) THEN 0 ELSE -1
              /\ sched' = 0
    /\ UNCHANGED nonWifiVars

(* The end of an API call that returns a status *)
WifiReturn(op, r, keeps) == WifiEnd(op, [r.w EXCEPT !.ret = r.err], keeps)

WifiIdle ==
    /\ wifi = WifiNew
    /\ wifiOp = "none"
    /\ chain = -1
    /\ sched = 0

WifiAtBoot(scope) ==
    /\ \E c \in CredentialsIn : wifi = [WifiNew EXCEPT !.stored = c, !.scope = scope]
    /\ wifiOp = "none"
    /\ chain = -1
    /\ sched = 0

WifiInit == WifiAtBoot({})

W_Init ==
    \E n \in 0..MaxWifiRetries, b \in BackoffsIn, ok \in BOOLEAN :
        WifiReturn("init", wifi_init(WifiBegin, WifiConfig(n, b[1], b[2]), ok), FALSE)

W_OnStateChange ==
    /\ ~wifi.state_callback_
    /\ WifiEnd("on_state_change", on_state_change(WifiBegin), TRUE)

W_Connect ==
    \E set_config_ok, connect_ok \in BOOLEAN :
        WifiReturn("connect",
                   wifi_connect([WifiBegin EXCEPT !.manual = FALSE],
                                set_config_ok, connect_ok),
                   TRUE)

W_ConnectCreds ==
    \E creds \in CredentialsIn, save_ok, set_config_ok, connect_ok \in BOOLEAN :
        WifiReturn("connect",
                   wifi_connect_creds([WifiBegin EXCEPT !.manual = FALSE],
                                      creds, save_ok, set_config_ok, connect_ok),
                   TRUE)

W_Disconnect ==
    \E ok \in BOOLEAN :
        \E r \in {wifi_disconnect(WifiBegin, ok)} :
            WifiReturn("disconnect",
                       [r EXCEPT !.w.manual = IF r.ok /\ "manual" \in wifi.scope
                                                THEN TRUE ELSE @],
                       FALSE)

W_StartProvisioning ==
    \E pop_given, disconnect_ok, init_ok, start_ok \in BOOLEAN, timeout_sec \in {0, 300} :
        \E r \in {start_provisioning([WifiBegin EXCEPT !.manual = FALSE],
                                     pop_given, timeout_sec,
                                     disconnect_ok, init_ok, start_ok)} :
            WifiReturn("start_provisioning",
                       [r EXCEPT !.w.failed_events = IF r.ok THEN 0 ELSE @], FALSE)

W_StopProvisioning ==
    WifiEnd("stop_provisioning", [stop_provisioning(WifiBegin) EXCEPT !.ret = "ESP_OK"],
            FALSE)

W_ClearCredentials ==
    WifiEnd("clear_credentials", clear_credentials(WifiBegin), TRUE)

(* the reconnect timer expires *)
W_ReconnectTimer ==
    /\ wifi.reconnect_timer_.running
    /\ WifiEnd("on_reconnect_timer",
               on_reconnect_timer([WifiBegin EXCEPT !.reconnect_timer_ = TimerStopped]),
               TRUE)

(* the provisioning timeout timer expires *)
W_ProvTimeout ==
    /\ wifi.prov_timeout_timer_
    /\ WifiEnd("on_prov_timeout",
               on_prov_timeout([WifiBegin EXCEPT !.prov_timeout_timer_ = FALSE,
                                                 !.manual = FALSE]), FALSE)

(* the driver delivers WIFI_EVENT_STA_DISCONNECTED *)
W_StaDisconnected ==
    /\ wifi.initialized_
    /\ wifi.at = "idle"
    /\ chain < MaxChain
    /\ wifi.retry_count_ < MaxChain \/ "wrap" \in wifi.scope
    /\ LET w2 == on_sta_disconnected(WifiBegin)
       IN  /\ wifi' = [w2 EXCEPT !.last_delay = IF "wrap" \in wifi.scope /\ w2.arms = 1
                                                  THEN w2.reconnect_timer_.delay ELSE @]
           /\ wifiOp' = "sta_disconnected"
           /\ IF chain >= 0
                THEN /\ chain' = IF wifi.state_ = "Provisioning" THEN chain ELSE chain + 1
                     /\ sched' = sched + w2.arms
                ELSE UNCHANGED <<chain, sched>>
    /\ UNCHANGED nonWifiVars

(* The same handler as another task sees it: first up to conn_info_ = {} ... *)
W_StaDisconnectedClear ==
    /\ wifi.initialized_
    /\ wifi.at = "idle"
    /\ wifi.state_ # "Provisioning"
    /\ chain < MaxChain
    /\ wifi.retry_count_ < MaxChain
    /\ wifi' = [sta_disconnected_clear(WifiBegin) EXCEPT !.at = "cleared"]
    /\ wifiOp' = "sta_disconnected"
    /\ UNCHANGED <<chain, sched>>
    /\ UNCHANGED nonWifiVars

(* ... then from set_state(Disconnected) to its end *)
W_StaDisconnectedRest ==
    /\ wifi.at = "cleared"
    /\ LET w2 == sta_disconnected_rest([wifi EXCEPT !.at = "idle"])
       IN  /\ wifi' = w2
           /\ wifiOp' = "sta_disconnected"
           /\ IF chain >= 0
                THEN /\ chain' = chain + 1
                     /\ sched' = sched + w2.arms
                ELSE UNCHANGED <<chain, sched>>
    /\ UNCHANGED nonWifiVars

(* The same handler once more, split inside set_state(): up to the call of *)
(* the registered callback, which the event task is then delivering ...    *)
W_StaDisconnectedExchange ==
    /\ wifi.initialized_
    /\ wifi.at = "idle"
    /\ wifi.state_callback_
    /\ wifi.state_ \notin {"Provisioning", "Disconnected"}
    /\ chain < MaxChain
    /\ wifi.retry_count_ < MaxChain
    /\ wifi' = [set_state(sta_disconnected_clear(WifiBegin), "Disconnected")
                  EXCEPT !.at = "callback"]
    /\ wifiOp' = "sta_disconnected"
    /\ UNCHANGED <<chain, sched>>
    /\ UNCHANGED nonWifiVars

(* ... and from the return of the callback to the end of the handler *)
W_StaDisconnectedReturn ==
    /\ wifi.at = "callback"
    /\ LET w1 == publish_event([wifi EXCEPT !.at = "idle"], "WifiDisconnected")
           w2 == schedule_reconnect(w1, calculate_backoff(w1))
       IN  /\ wifi' = w2
           /\ wifiOp' = "sta_disconnected"
           /\ IF chain >= 0
                THEN /\ chain' = chain + 1
                     /\ sched' = sched + w2.arms
                ELSE UNCHANGED <<chain, sched>>
    /\ UNCHANGED nonWifiVars

(* the driver delivers IP_EVENT_STA_GOT_IP *)
W_GotIp ==
    /\ wifi.initialized_
    /\ wifi.at = "idle"
    /\ \E ip \in AddressesIn, ap_ok \in ApInfoIn :
           WifiEnd("got_ip",
                   [on_got_ip([WifiBegin EXCEPT !.manual = FALSE], ip, ap_ok, ip)
                       EXCEPT !.got = IF "addr" \in wifi.scope
                                        THEN ConnectionInfo(ip, IF ap_ok THEN ip ELSE 0)
                                        ELSE @],
                   FALSE)

(* the provisioning manager delivers a WIFI_PROV_EVENT *)
W_ProvEvent ==
    /\ wifi.prov_sub_
    /\ wifi.at = "idle"
    /\ \E e \in ProvEvents, creds \in CredentialsIn :
           WifiEnd("prov_event", prov_event_handler([WifiBegin EXCEPT !.manual = FALSE], e, creds), FALSE)

WifiNext ==
    \/ W_Init
    \/ W_Connect
    \/ W_ConnectCreds
    \/ W_Disconnect
    \/ W_StartProvisioning
    \/ W_StopProvisioning
    \/ W_ClearCredentials
    \/ W_ReconnectTimer
    \/ W_ProvTimeout
    \/ W_StaDisconnected
    \/ W_GotIp
    \/ W_ProvEvent

----------------------------------------------------------------------------
(* HttpTransport, synchronous path (transport/http_transport.hpp) *)

(* auth_buffer_ is the Authorization value the HttpClient holds and applies *)
(* to every perform(); empty when none was ever set on this client.         *)
HttpNew == [client_ |-> FALSE, connected_ |-> FALSE, auth_buffer_ |-> <<>>]

http_connect(h, client_valid) ==
    IF h.client_ THEN [h |-> h, ok |-> TRUE]
    ELSE IF ~client_valid THEN [h |-> h, ok |-> FALSE]
    ELSE [h |-> [client_ |-> TRUE, connected_ |-> TRUE, auth_buffer_ |-> <<>>],
          ok |-> TRUE]

http_disconnect(h) == IF h.client_ THEN HttpNew ELSE h

(* send(): hdr is what auth_->get_auth_header() returned, ans is what       *)
(* client_->perform() meets; wire holds the request made, bare holds it     *)
(* when it had no Authorization.                                            *)
http_send(h, hdr, path, ans) ==
    LET Performed(h1) ==
            IF ans.kind = "neterr"
              THEN [h |-> [h1 EXCEPT !.connected_ = FALSE],
                    result |-> Outcome("ESP_FAIL", 0), wire |-> <<path>>,
                    bare |-> IF h1.auth_buffer_ = <<>> THEN <<path>> ELSE <<>>]
              ELSE [h |-> h1, result |-> Outcome("ESP_OK", ans.code), wire |-> <<path>>,
                    bare |-> IF h1.auth_buffer_ = <<>> THEN <<path>> ELSE <<>>]
    IN  IF ~h.client_
          THEN [h |-> h, result |-> Outcome("ESP_ERR_INVALID_STATE", 0), wire |-> <<>>,
                bare |-> <<>>]
        ELSE Performed([h EXCEPT !.auth_buffer_ = IF hdr.ok THEN hdr.value ELSE @])

is_success(status_code) == status_code >= 200 /\ status_code < 300

----------------------------------------------------------------------------
(* CloudClient (cloud/cloud_client.hpp).  The operators below work on a     *)
(* pair x = [c |-> the CloudManager with its client, a |-> the auth        *)
(* provider] and log the requests they issue in x.c.wire.                   *)

TELEMETRY_PROTO == "/telemetry/proto"
COMMANDS == "/commands"

ACK_PATH_SIZE == 64
MAX_COMMANDS == 8

CloudError == {"None", "NotInitialized", "NotAuthenticated", "DeviceRevoked",
               "NetworkError", "ServerError", "ParseError", "RateLimited"}

(* A response body of the API: empty, or JSON with or without a "data"     *)
(* array of command objects [id, type].                                     *)
EmptyBody == [empty |-> TRUE, data |-> FALSE, cmds |-> <<>>]

ApiResponse(success, status_code, error, body) ==
    [success |-> success, status_code |-> status_code, error |-> error, body |-> body]

ApiError(error) == ApiResponse(FALSE, 0, error, EmptyBody)

NoResponse == ApiResponse(TRUE, 0, "None", EmptyBody)

XRet(x, resp) == [x |-> x, resp |-> resp]

Paths(wire) == [i \in 1..Len(wire) |-> wire[i].path]

client_init(cc, client_valid) ==
    LET r == http_connect(HttpNew, client_valid)
    IN  [cc |-> [transport_ |-> TRUE, http |-> r.h], ok |-> r.ok]

client_disconnect(cc) ==
    IF cc.transport_ THEN [cc EXCEPT !.http = http_disconnect(@)] ELSE cc

ensure_auth(a, t, creds_valid, r1, r2) ==
    LET Refreshed(r) ==
            [a |-> r.a, err |-> IF r.ok THEN "None" ELSE "NotAuthenticated",
             wire |-> r.wire]
    IN  IF is_revoked(a) THEN [a |-> a, err |-> "DeviceRevoked", wire |-> <<>>]
        ELSE IF needs_refresh(a, t) THEN Refreshed(refresh(a, t, creds_valid, r1, r2))
        ELSE [a |-> a, err |-> "None", wire |-> <<>>]

do_request(x, t, path, ans) ==
    LET Classify(result) ==
            IF is_success(result.status) THEN "None"
            ELSE IF is_server_error(result) THEN "ServerError"
            ELSE IF result.status = TOO_MANY_REQUESTS THEN "RateLimited"
            ELSE "NetworkError"
        Sent(s) ==
            IF s.result.err # "ESP_OK"
              THEN XRet([x EXCEPT !.c.cc.http = s.h, !.c.wire = @ \o s.wire,
                                  !.c.bare = @ \o s.bare],
                        ApiError("NetworkError"))
              ELSE XRet([x EXCEPT !.c.cc.http = s.h, !.c.wire = @ \o s.wire,
                                  !.c.bare = @ \o s.bare,
                                  !.a = handle_response_status(@, s.result.status)],
                        ApiResponse(is_success(s.result.status), s.result.status,
                                    Classify(s.result), ans.body))
    IN  Sent(http_send(x.c.cc.http, get_auth_header(x.a, t), path, ans))

(* execute() and execute_with_params(): env = [r1, r2, ans] are the answers *)
(* to /auth/refresh, /auth/device and the request itself.                   *)
execute(x, t, path, env) ==
    LET With(e) == [x EXCEPT !.a = e.a, !.c.wire = @ \o Paths(e.wire)]
        Gated(e) == IF e.err # "None" THEN XRet(With(e), ApiError(e.err))
                    ELSE do_request(With(e), t, path, env.ans)
    IN  IF ~x.c.cc.transport_ THEN XRet(x, ApiError("NotInitialized"))
        ELSE Gated(ensure_auth(x.a, t, x.c.credentials_valid, env.r1, env.r2))

----------------------------------------------------------------------------
(* CommandService, CommandHandler, TelemetryService (cloud/) *)

parse_command_type(type) ==
    IF type = "reboot" THEN "Reboot"
    ELSE IF type = "factory_reset" THEN "FactoryReset"
    ELSE "Unknown"

(* parse_command(): no command without an id *)
parse_command(obj) ==
    IF obj.id = "" THEN [ok |-> FALSE, cmd |-> [id |-> "", type |-> "Unknown"]]
    ELSE [ok |-> TRUE, cmd |-> [id |-> obj.id, type |-> parse_command_type(obj.type)]]

RECURSIVE ParseObjects(_, _)
ParseObjects(objs, buffer) ==
    IF objs = <<>> \/ Len(buffer) >= MAX_COMMANDS THEN buffer
    ELSE LET p == parse_command(Head(objs))
         IN  ParseObjects(Tail(objs), IF p.ok THEN Append(buffer, p.cmd) ELSE buffer)

parse_commands(body) ==
    IF ~body.data THEN [ok |-> FALSE, buffer |-> <<>>]
    ELSE [ok |-> TRUE, buffer |-> ParseObjects(body.cmds, <<>>)]

(* poll(): the CommandsResult and the buffer *)
command_poll(x, t, env) ==
    LET Result(x2, success, error, buffer) ==
            [x |-> x2, success |-> success, error |-> error, buffer |-> buffer]
        Parsed(x2, p) == IF ~p.ok THEN Result(x2, FALSE, "ParseError", <<>>)
                         ELSE Result(x2, TRUE, "None", p.buffer)
        Polled(r) ==
            IF ~r.resp.success THEN Result(r.x, FALSE, r.resp.error, <<>>)
            ELSE IF r.resp.status_code = NO_CONTENT \/ r.resp.body.empty
              THEN Result(r.x, TRUE, "None", <<>>)
            ELSE Parsed(r.x, parse_commands(r.resp.body))
    IN  Polled(execute(x, t, COMMANDS, env))

AckPath(command_id) == COMMANDS \o "/" \o command_id \o "/ack"

command_ack(x, t, command_id, env) ==
    LET Posted(r) == [x |-> r.x, ok |-> r.resp.success]
    IN  IF Len(AckPath(command_id)) >= ACK_PATH_SIZE THEN [x |-> x, ok |-> FALSE]
        ELSE Posted(execute(x, t, AckPath(command_id), env))

(* process(): custom_result is what a registered handler returns *)
process(x, cmd, custom_result) ==
    IF cmd.type \in x.c.custom THEN [x |-> x, result |-> custom_result]
    ELSE IF cmd.type = "Reboot"
      THEN [x |-> [x EXCEPT !.c.published = Append(@, "RebootRequested")],
            result |-> "Success"]
    ELSE IF cmd.type = "FactoryReset"
      THEN [x |-> [x EXCEPT !.c.published = Append(@, "FactoryResetRequested")],
            result |-> "Success"]
    ELSE [x |-> x, result |-> "Unknown"]

process_one_AckOnSuccess(x, t, cmd, custom_result, env) ==
    LET Acked(result, k) == [x |-> k.x, result |-> result, ack_ok |-> k.ok]
        Processed(p) ==
            IF p.result = "Success"
              THEN Acked(p.result, command_ack(p.x, t, cmd.id, env))
              ELSE [x |-> p.x, result |-> p.result, ack_ok |-> FALSE]
    IN  Processed(process(x, cmd, custom_result))

(* process_all(): the body of the loop, for one command *)
process_one(x, t, cmd, custom_result, env) ==
    LET Acked(result, k) == [x |-> k.x, result |-> result, ack_ok |-> k.ok]
        Processed(p) == Acked(p.result, command_ack(p.x, t, cmd.id, env))
    IN  Processed(process(x, cmd, custom_result))

(* TelemetryService::send(): encoded is the size the serializer returns *)
telemetry_send(x, t, count, encoded, env) ==
    IF count = 0 THEN XRet(x, ApiResponse(TRUE, 0, "None", EmptyBody))
    ELSE IF encoded = 0 THEN XRet(x, ApiError("ParseError"))
    ELSE execute(x, t, TELEMETRY_PROTO, env)

----------------------------------------------------------------------------
(* CloudManager (cloud/cloud_manager.hpp) *)

CloudState == {"Uninitialized", "NoCredentials", "Connecting", "Authenticated",
               "Revoked", "Error"}

ClientNew == [transport_ |-> FALSE, http |-> HttpNew]

CloudNew(identity) ==
    [state_ |-> "Uninitialized",
     services |-> FALSE,          \* auth_, client_ and the services are emplaced
     credentials_valid |-> FALSE, \* credentials_.is_valid()
     timers |-> FALSE,            \* the three periodic timers run
     custom |-> {},               \* command types with a registered handler
     identity |-> identity,       \* device_id and secret are in creds_storage_
     cc |-> ClientNew,
     wire |-> <<>>,               \* history: requests issued by the last operation
     bare |-> <<>>,               \* history: those sent without Authorization
     resp |-> NoResponse,         \* history: the ApiResponse of the last execute(),
                                  \*          the error of the last poll()
     published |-> <<>>]          \* history: events published by the last operation

XOk(x, ok) == [x |-> x, ok |-> ok]

cm_publish(x, e) == [x EXCEPT !.c.published = Append(@, e)]

start_timers(x) == [x EXCEPT !.c.timers = TRUE]

stop_timers(x) == [x EXCEPT !.c.timers = FALSE]

on_revoked(x) == cm_publish(stop_timers(x), "Revoked")

handle_error_AnyError(x, error) ==
    IF error # "None" THEN on_revoked([x EXCEPT !.c.state_ = "Revoked"])
    ELSE x

handle_error(x, error) ==
    IF error = "DeviceRevoked" THEN on_revoked([x EXCEPT !.c.state_ = "Revoked"])
    ELSE x

cm_init_IgnoreLoad(x, load_ok) ==
    XOk([x EXCEPT !.c.credentials_valid = TRUE, !.c.services = TRUE,
                  !.c.cc = ClientNew, !.a = AuthNew(x.a.rtc),
                  !.c.state_ = "Uninitialized"], TRUE)

(* init(): load_ok tells that the storage reads succeed *)
cm_init(x, load_ok) ==
    IF ~(x.c.identity /\ load_ok)
      THEN XOk([x EXCEPT !.c.state_ = "NoCredentials"], FALSE)
      ELSE XOk([x EXCEPT !.c.credentials_valid = TRUE, !.c.services = TRUE,
                         !.c.cc = ClientNew, !.a = AuthNew(x.a.rtc),
                         !.c.state_ = "Uninitialized"], TRUE)

cm_start(x, t, client_valid, r) ==
    LET With(x1, ar) == [x1 EXCEPT !.a = ar.a, !.c.wire = @ \o Paths(ar.wire)]
        Authed(x1, ar) ==
            IF ar.state = "Revoked"
              THEN XOk(on_revoked([With(x1, ar) EXCEPT !.c.state_ = "Revoked"]), FALSE)
            ELSE IF ar.state # "Authenticated"
              THEN XOk(cm_publish([With(x1, ar) EXCEPT !.c.state_ = "Error"],
                                  "AuthFailed"), FALSE)
            ELSE XOk(start_timers(cm_publish(
                         [With(x1, ar) EXCEPT !.c.state_ = "Authenticated"],
                         "Authenticated")), TRUE)
        Connected(ci) ==
            IF ~ci.ok
              THEN XOk([x EXCEPT !.c.state_ = "Error", !.c.cc = ci.cc], FALSE)
              ELSE Authed([x EXCEPT !.c.state_ = "Connecting", !.c.cc = ci.cc],
                          authenticate(x.a, t, x.c.credentials_valid, r))
    IN  IF ~x.c.services THEN XOk(x, FALSE)
        ELSE IF x.c.state_ = "Revoked" THEN XOk(x, FALSE)
        ELSE Connected(client_init(x.c.cc, client_valid))

cm_stop_ResetsRevoked(x) ==
    LET x1 == stop_timers(x)
        x2 == IF x1.c.services
                THEN [x1 EXCEPT !.c.cc = client_disconnect(@)] ELSE x1
    IN  [x2 EXCEPT !.c.state_ = "Uninitialized"]

cm_stop(x) ==
    LET x1 == stop_timers(x)
        x2 == IF x1.c.services
                THEN [x1 EXCEPT !.c.cc = client_disconnect(@)] ELSE x1
    IN  IF x2.c.state_ # "Revoked" THEN [x2 EXCEPT !.c.state_ = "Uninitialized"]
        ELSE x2

cm_send_telemetry(x, t, count, encoded, env) ==
    LET Sent(r) == IF r.resp.success THEN r
                   ELSE XRet(handle_error(r.x, r.resp.error), r.resp)
    IN  IF ~x.c.services \/ x.c.state_ # "Authenticated"
          THEN XRet(x, ApiError("NotAuthenticated"))
        ELSE IF count = 0 THEN XRet(x, ApiResponse(TRUE, 0, "None", EmptyBody))
        ELSE Sent(telemetry_send(x, t, count, encoded, env))

(* poll_commands() up to process_all(): the buffer to process, and the    *)
(* CommandsResult of poll()                                                *)
cm_poll_commands(x, t, env) ==
    LET Polled(r) == IF ~r.success
                       THEN [x |-> handle_error(r.x, r.error), buffer |-> <<>>,
                             result |-> ApiError(r.error)]
                       ELSE [x |-> r.x, buffer |-> r.buffer, result |-> NoResponse]
    IN  IF ~x.c.services \/ x.c.state_ # "Authenticated"
          THEN [x |-> x, buffer |-> <<>>, result |-> NoResponse]
          ELSE Polled(command_poll(x, t, env))

check_token_refresh(x, t, r1, r2) ==
    LET With(r) == [x EXCEPT !.a = r.a, !.c.wire = @ \o Paths(r.wire)]
        Refreshed(r) == IF ~r.ok /\ is_revoked(r.a)
                          THEN on_revoked([With(r) EXCEPT !.c.state_ = "Revoked"])
                          ELSE With(r)
    IN  IF ~x.c.services \/ x.c.state_ # "Authenticated" THEN x
        ELSE IF ~needs_refresh(x.a, t) THEN x
        ELSE Refreshed(refresh(x.a, t, x.c.credentials_valid, r1, r2))

on_command(x, type) == [x EXCEPT !.c.custom = @ \cup {type}]

----------------------------------------------------------------------------
(* The backend and the CloudManager's operations *)

CloudAuthResponses ==
    {[kind |-> "http", code |-> c, body |-> NoBody] : c \in {FORBIDDEN, SERVER_ERROR}}
    \cup {[kind |-> "http", code |-> OK,
           body |-> [has_token |-> TRUE, token |-> <<1>>, expires_in |-> ShortTtl]]}

NoAnswer == [kind |-> "neterr", code |-> 0, body |-> EmptyBody]

ApiAnswers ==
    {NoAnswer} \cup
    {[kind |-> "http", code |-> c, body |-> EmptyBody] :
        c \in {OK, UNAUTHORIZED, FORBIDDEN}}

CommandIds == <<"c1", "c2", "c3">>

CommandTypes == {"reboot", "set_interval"}

(* The "data" arrays GET /commands can carry: object i has id CommandIds[i] *)
(* or lacks the id.                                                         *)
CommandLists ==
    UNION {[1..n -> [id : {""}, type : CommandTypes]] : n \in 0..MaxCommands}

WithIds(objs) ==
    [i \in 1..Len(objs) |->
        [objs[i] EXCEPT !.id = IF objs[i].type = "set_interval" /\ i = 1
                                 THEN "" ELSE CommandIds[i]]]

PollAnswers ==
    ApiAnswers
    \cup {[kind |-> "http", code |-> NO_CONTENT, body |-> EmptyBody],
          [kind |-> "http", code |-> OK,
           body |-> [empty |-> FALSE, data |-> FALSE, cmds |-> <<>>]]}
    \cup {[kind |-> "http", code |-> OK,
           body |-> [empty |-> FALSE, data |-> TRUE, cmds |-> WithIds(l)]] :
            l \in CommandLists}

CommandResult == {"Success", "Failed", "Unknown", "InvalidPayload"}

AsksRefresh(x, t) ==
    /\ x.c.cc.transport_ /\ ~is_revoked(x.a) /\ needs_refresh(x.a, t)
    /\ RtcAuthToken_is_valid(x.a.rtc, t)

AsksDevice(x, t, r1) ==
    /\ x.c.cc.transport_ /\ ~is_revoked(x.a) /\ needs_refresh(x.a, t)
    /\ ~do_token_refresh(x.a, t, r1).ok
    /\ x.c.credentials_valid

Gate(x, t, r1, r2) ==
    /\ x.c.cc.transport_ /\ x.c.cc.http.client_
    /\ ensure_auth(x.a, t, x.c.credentials_valid, r1, r2).err = "None"

(* The answers one execute() can meet; one placeholder for a request that  *)
(* is not sent.                                                             *)
EnvsFor(x, t, answers) ==
    UNION {UNION {{[r1 |-> r1, r2 |-> r2, ans |-> ans] :
                      ans \in IF Gate(x, t, r1, r2) THEN answers ELSE {NoAnswer}} :
                  r2 \in IF AsksDevice(x, t, r1) THEN CloudAuthResponses ELSE {Unasked}} :
           r1 \in IF AsksRefresh(x, t) THEN CloudAuthResponses ELSE {Unasked}}

IsAuthPath(p) == p \in {AUTH_DEVICE, AUTH_REFRESH}

CloudBegin ==
    [c |-> [cloud EXCEPT !.wire = <<>>, !.bare = <<>>, !.resp = NoResponse,
                         !.published = <<>>],
     a |-> auth]

Idle == cmd_pos = 0

CloudEnd(op, x2) ==
    \E x \in {x2} :
        /\ cloud' = x.c
        /\ auth' = x.a
        /\ cloudOp' = op
        /\ authAsked' = (authAsked \/ \E i \in 1..Len(x.c.wire) : IsAuthPath(x.c.wire[i]))
        /\ UNCHANGED now
        /\ UNCHANGED nonCloudVars

NoCycle == /\ cmd_buffer' = <<>> /\ cmd_pos' = 0 /\ acked' = <<>>

CloudIdle ==
    /\ cloud = CloudNew(FALSE)
    /\ cloudOp = "none"
    /\ cmd_buffer = <<>>
    /\ cmd_pos = 0
    /\ acked = <<>>
    /\ authAsked = FALSE

CloudInit ==
    /\ now = 1
    /\ \E rtc \in {RtcAuthTokenZero,
                     RtcAuthToken_set(RtcAuthTokenZero, <<1>>, 1 + DEFAULT_EXPIRES_IN)} :
         auth = AuthNew(rtc)
    /\ lastCall = NoCall
    /\ sawRevoked = FALSE
    /\ \E identity \in BOOLEAN : cloud = CloudNew(identity)
    /\ cloudOp = "none"
    /\ cmd_buffer = <<>>
    /\ cmd_pos = 0
    /\ acked = <<>>
    /\ authAsked = FALSE

CM_Init ==
    /\ Idle /\ ~cloud.services
    /\ \E load_ok \in BOOLEAN :
         \E r \in {cm_init(CloudBegin, load_ok)} :
             CloudEnd(IF r.ok THEN "init" ELSE "init_failed", r.x)
    /\ NoCycle

CM_Start ==
    /\ Idle
    /\ \E client_valid \in BOOLEAN :
       \E r \in IF cloud.services /\ cloud.state_ # "Revoked" /\ client_valid
                   /\ ~RtcAuthToken_is_valid(auth.rtc, now)
                  THEN CloudAuthResponses ELSE {Unasked} :
         CloudEnd("start", cm_start(CloudBegin, now, client_valid, r).x)
    /\ NoCycle

CM_Stop ==
    /\ Idle
    /\ CloudEnd("stop", cm_stop(CloudBegin))
    /\ NoCycle

CM_SendTelemetry ==
    /\ Idle
    /\ \E count \in 0..1, encoded \in 0..1 :
       \E env \in IF cloud.services /\ cloud.state_ = "Authenticated"
                     /\ count # 0 /\ encoded # 0
                    THEN EnvsFor(CloudBegin, now, ApiAnswers)
                    ELSE {[r1 |-> Unasked, r2 |-> Unasked, ans |-> NoAnswer]} :
         \E r \in {cm_send_telemetry(CloudBegin, now, count, encoded, env)} :
             CloudEnd("send_telemetry", [r.x EXCEPT !.c.resp = r.resp])
    /\ NoCycle

CM_OnCommand ==
    /\ Idle /\ Cardinality(cloud.custom) < MaxHandlers
    /\ \E type \in {"Reboot"} \ cloud.custom :
         CloudEnd("on_command", on_command(CloudBegin, type))
    /\ NoCycle

(* The token timer's callback *)
CM_TokenTimer ==
    /\ Idle /\ cloud.timers
    /\ \E r1 \in IF cloud.services /\ cloud.state_ = "Authenticated"
                    /\ ~is_revoked(auth) /\ needs_refresh(auth, now)
                    /\ RtcAuthToken_is_valid(auth.rtc, now)
                   THEN CloudAuthResponses ELSE {Unasked} :
       \E r2 \in IF cloud.services /\ cloud.state_ = "Authenticated"
                    /\ ~is_revoked(auth) /\ needs_refresh(auth, now)
                    /\ ~do_token_refresh(auth, now, r1).ok
                   THEN CloudAuthResponses ELSE {Unasked} :
         CloudEnd("check_token_refresh", check_token_refresh(CloudBegin, now, r1, r2))
    /\ NoCycle

(* poll_commands(), from the caller or as the command timer's callback:   *)
(* the poll itself; process_all() follows, one command per CM_ProcessNext.  *)
CM_PollCommands ==
    /\ Idle
    /\ \E env \in IF cloud.services /\ cloud.state_ = "Authenticated"
                 THEN EnvsFor(CloudBegin, now, PollAnswers)
                 ELSE {[r1 |-> Unasked, r2 |-> Unasked, ans |-> NoAnswer]} :
         \E r \in {cm_poll_commands(CloudBegin, now, env)} :
             /\ CloudEnd("poll_commands", [r.x EXCEPT !.c.resp = r.result])
             /\ cmd_buffer' = r.buffer
             /\ cmd_pos' = IF r.buffer = <<>> THEN 0 ELSE 1
             /\ acked' = <<>>


CM_ProcessNext ==
    /\ cmd_pos >= 1
    /\ LET cmd == cmd_buffer[cmd_pos]
           x   == CloudBegin
       IN  \E custom_result \in IF cmd.type \in cloud.custom THEN CommandResult
                                ELSE {"Success"} :
           \E env \in EnvsFor(process(x, cmd, custom_result).x, now, ApiAnswers) :
             \E r \in {process_one(x, now, cmd, custom_result, env)} :
                 /\ CloudEnd("process_all", r.x)
                 /\ acked' = Append(acked,
                       [id |-> cmd.id, result |-> r.result, ack_ok |-> r.ack_ok,
                        gate |-> Gate(x, now, env.r1, env.r2),
                        reqs |-> SelectSeq(r.x.c.wire, LAMBDA q : ~IsAuthPath(q))])
    /\ cmd_pos' = IF cmd_pos = Len(cmd_buffer) THEN 0 ELSE cmd_pos + 1
    /\ UNCHANGED cmd_buffer

CloudNext ==
    \/ CM_Init
    \/ CM_Start
    \/ CM_Stop
    \/ CM_SendTelemetry
    \/ CM_OnCommand
    \/ CM_TokenTimer
    \/ CM_PollCommands
    \/ CM_ProcessNext

----------------------------------------------------------------------------
(* SpecSession: the CloudManager's init/start/stop/send_telemetry and its   *)
(* token timer, without the command channel, while the clock advances.      *)

CM_Tick ==
    /\ Idle
    /\ now < MaxTime
    /\ now' = now + 1
    /\ UNCHANGED <<auth, cloudVars>>
    /\ UNCHANGED nonCloudVars

SessionNext ==
    \/ CM_Init
    \/ CM_Start
    \/ CM_Stop
    \/ CM_SendTelemetry
    \/ CM_TokenTimer
    \/ CM_Tick

----------------------------------------------------------------------------
(* SpecClient: one CloudClient over its HttpTransport and the auth         *)
(* provider, as the services use it: init(), disconnect() and the requests  *)
(* of execute(), against a backend whose auth endpoints may also return a   *)
(* 401, an empty token or a token that expires at once.                     *)

ClientAuthResponses ==
    {[kind |-> "neterr", code |-> 0, body |-> NoBody]}
    \cup {[kind |-> "http", code |-> c, body |-> NoBody] :
            c \in {UNAUTHORIZED, FORBIDDEN, SERVER_ERROR}}
    \cup {[kind |-> "http", code |-> OK,
           body |-> [has_token |-> TRUE, token |-> tok, expires_in |-> e]] :
            tok \in {<<>>, <<1>>}, e \in {0, ShortTtl}}

ClientAnswers ==
    {NoAnswer} \cup
    {[kind |-> "http", code |-> c, body |-> EmptyBody] :
        c \in {OK, UNAUTHORIZED, FORBIDDEN, TOO_MANY_REQUESTS, SERVER_ERROR}}

ClientEnvs(x, t) ==
    UNION {UNION {{[r1 |-> r1, r2 |-> r2, ans |-> ans] :
                      ans \in IF Gate(x, t, r1, r2) THEN ClientAnswers ELSE {NoAnswer}} :
                  r2 \in IF AsksDevice(x, t, r1) THEN ClientAuthResponses ELSE {Unasked}} :
           r1 \in IF AsksRefresh(x, t) THEN ClientAuthResponses ELSE {Unasked}}

(* The requests of the last operation that are not the provider's own *)
ServiceRequests == SelectSeq(cloud.wire, LAMBDA q : ~IsAuthPath(q))

ClientInit ==
    /\ now = 1
    /\ \E rtc \in RtcAtBoot : auth = AuthNew(rtc)
    /\ lastCall = NoCall
    /\ sawRevoked = FALSE
    /\ cloud = [CloudNew(TRUE) EXCEPT !.credentials_valid = TRUE, !.services = TRUE]
    /\ cloudOp = "none"
    /\ cmd_buffer = <<>>
    /\ cmd_pos = 0
    /\ acked = <<>>
    /\ authAsked = FALSE

CL_Init ==
    /\ \E client_valid \in BOOLEAN :
         \E r \in {client_init(cloud.cc, client_valid)} :
             CloudEnd("client_init", [CloudBegin EXCEPT !.c.cc = r.cc])
    /\ NoCycle

CL_Disconnect ==
    /\ cloud.cc.transport_
    /\ CloudEnd("client_disconnect", [CloudBegin EXCEPT !.c.cc = client_disconnect(@)])
    /\ NoCycle

(* post()/get() of a service *)
CL_Execute ==
    /\ \E path \in {TELEMETRY_PROTO, COMMANDS} :
       \E env \in ClientEnvs(CloudBegin, now) :
       \E r \in {execute(CloudBegin, now, path, env)} :
           CloudEnd("execute", [r.x EXCEPT !.c.resp = r.resp])
    /\ NoCycle

CL_Tick ==
    /\ now < MaxTime
    /\ now' = now + 1
    /\ UNCHANGED <<auth, cloudVars>>
    /\ UNCHANGED nonCloudVars

ClientNext ==
    \/ CL_Init
    \/ CL_Disconnect
    \/ CL_Execute
    \/ CL_Tick

----------------------------------------------------------------------------
(* MeasurementProbe (application/src/app.cpp).  The orchestrator is kept   *)
(* as its state_ and the events it publishes; every call made to it is     *)
(* logged in app.calls with the context that made it: "main" (the main     *)
(* task), "event" (the event loop task) or "timer" (the esp_timer task).    *)

AppNew(provisioned) ==
    [cloud_ |-> provisioned,
     state_ |-> "Uninitialized",
     cloud_start_pending_ |-> FALSE,
     cloud_stop_pending_ |-> FALSE,
     device_info_pending_ |-> FALSE,
     log_timer_ |-> TRUE,          \* the periodic log timer runs
     posted |-> {},                \* CLOUD_EVENTS published, not yet handled
     calls |-> <<>>,               \* history: orchestrator calls of the last step
     link |-> "none"]              \* history: the last connectivity event, "up" or "down"

Called(a, op, ctx) == [a EXCEPT !.calls = Append(@, [op |-> op, ctx |-> ctx])]

(* cloud_->start(): outcome is the AuthState authenticate() returns, or   *)
(* "ClientInitFailed" when client_->init() fails                          *)
orch_start(a, ctx, outcome) ==
    LET a1 == Called(a, "start", ctx)
    IN  IF a1.state_ = "Revoked" THEN [a |-> a1, ok |-> FALSE]
        ELSE IF outcome = "ClientInitFailed"
          THEN [a |-> [a1 EXCEPT !.state_ = "Error"], ok |-> FALSE]
        ELSE IF outcome = "Revoked"
          THEN [a |-> [a1 EXCEPT !.state_ = "Revoked", !.posted = @ \cup {"Revoked"}],
                ok |-> FALSE]
        ELSE IF outcome # "Authenticated"
          THEN [a |-> [a1 EXCEPT !.state_ = "Error", !.posted = @ \cup {"AuthFailed"}],
                ok |-> FALSE]
        ELSE [a |-> [a1 EXCEPT !.state_ = "Authenticated",
                               !.posted = @ \cup {"Authenticated"}],
              ok |-> TRUE]

orch_stop(a, ctx) ==
    LET a1 == Called(a, "stop", ctx)
    IN  IF a1.state_ # "Revoked" THEN [a1 EXCEPT !.state_ = "Uninitialized"] ELSE a1

(* cloud_->send_telemetry(): error is the CloudError of the response *)
orch_send_telemetry(a, ctx, error) ==
    LET a1 == Called(a, "send_telemetry", ctx)
    IN  IF a1.state_ # "Authenticated" THEN a1
        ELSE IF error = "DeviceRevoked"
          THEN [a1 EXCEPT !.state_ = "Revoked", !.posted = @ \cup {"Revoked"}]
        ELSE a1

(* send_telemetry(): count is what sensors_.read_all_into() returns *)
app_send_telemetry(a, ctx, count, error) ==
    IF ~a.cloud_ \/ a.state_ # "Authenticated" THEN a
    ELSE IF count = 0 THEN a
    ELSE orch_send_telemetry(a, ctx, error)

start_cloud(a, ctx, outcome, count, error) ==
    LET Started(r) == IF ~r.ok THEN r.a
                      ELSE app_send_telemetry(r.a, ctx, count, error)
    IN  IF ~a.cloud_ THEN a ELSE Started(orch_start(a, ctx, outcome))

network_event_handler(a, event) ==
    IF event = "WifiConnected" THEN [a EXCEPT !.cloud_start_pending_ = TRUE]
    ELSE IF event = "WifiDisconnected" THEN [a EXCEPT !.cloud_stop_pending_ = TRUE]
    ELSE a

on_wifi_state_change(a, new_state) ==
    IF new_state = "Disconnected" THEN [a EXCEPT !.cloud_stop_pending_ = TRUE] ELSE a

on_device_revoked(a) == [a EXCEPT !.log_timer_ = FALSE]

cloud_event_handler(a, event) ==
    IF event = "Authenticated" THEN [a EXCEPT !.device_info_pending_ = TRUE]
    ELSE IF event = "Revoked" THEN on_device_revoked(a)
    ELSE a

on_log_timer(a, ctx, count, error) == app_send_telemetry(a, ctx, count, error)

AppBegin == [app EXCEPT !.calls = <<>>]

AppIdle ==
    /\ app = AppNew(FALSE)
    /\ main_pc = "start"

(* After run() has initialised the subsystems: cloud_ is engaged when the  *)
(* device is provisioned and init() succeeded.                              *)
AppInit ==
    /\ \E provisioned \in BOOLEAN : app = AppNew(provisioned)
    /\ main_pc = "start"

StartOutcomes == {"Authenticated", "Unauthenticated", "Revoked", "ClientInitFailed"}

TelemetryErrors == {"None", "NetworkError", "DeviceRevoked"}

(* Event loop task *)
App_NetworkEvent ==
    /\ \E event \in {"WifiConnected", "WifiDisconnected", "WifiConnectionFailed"} :
         app' = [network_event_handler(AppBegin, event)
                    EXCEPT !.link = IF event = "WifiConnected" THEN "up"
                                    ELSE IF event = "WifiDisconnected" THEN "down" ELSE @]
    /\ UNCHANGED main_pc
    /\ UNCHANGED nonAppVars

App_WifiStateChange ==
    /\ \E new_state \in WifiState :
         app' = [on_wifi_state_change(AppBegin, new_state)
                    EXCEPT !.link = IF new_state = "Disconnected" THEN "down" ELSE @]
    /\ UNCHANGED main_pc
    /\ UNCHANGED nonAppVars

App_CloudEvent ==
    /\ \E event \in app.posted :
         app' = cloud_event_handler([AppBegin EXCEPT !.posted = @ \ {event}], event)
    /\ UNCHANGED main_pc
    /\ UNCHANGED nonAppVars

(* esp_timer task *)
App_LogTimer ==
    /\ app.log_timer_
    /\ \E count \in 0..1, error \in TelemetryErrors :
         app' = on_log_timer(AppBegin, "timer", count, error)
    /\ UNCHANGED main_pc
    /\ UNCHANGED nonAppVars

(* Main task: run_continuous_mode(), one test of the loop per step *)
App_MainStart ==
    /\ main_pc = "start"
    /\ IF app.cloud_start_pending_
         THEN \E outcome \in StartOutcomes,
                 count \in 0..1, error \in TelemetryErrors :
                app' = start_cloud([AppBegin EXCEPT !.cloud_start_pending_ = FALSE],
                                   "main", outcome, count, error)
         ELSE app' = AppBegin
    /\ main_pc' = "stop"
    /\ UNCHANGED nonAppVars

App_MainStop ==
    /\ main_pc = "stop"
    /\ app' = IF app.cloud_stop_pending_
                THEN LET a == [AppBegin EXCEPT !.cloud_stop_pending_ = FALSE]
                     IN  IF a.cloud_ THEN orch_stop(a, "main") ELSE a
                ELSE AppBegin
    /\ main_pc' = "device_info"
    /\ UNCHANGED nonAppVars

App_MainDeviceInfo ==
    /\ main_pc = "device_info"
    /\ app' = IF app.device_info_pending_
                THEN LET a == [AppBegin EXCEPT !.device_info_pending_ = FALSE]
                     IN  IF a.cloud_ THEN Called(a, "send_device_info", "main") ELSE a
                ELSE AppBegin
    /\ main_pc' = "start"
    /\ UNCHANGED nonAppVars

AppNext ==
    \/ App_NetworkEvent
    \/ App_WifiStateChange
    \/ App_CloudEvent
    \/ App_LogTimer
    \/ App_MainStart
    \/ App_MainStop
    \/ App_MainDeviceInfo

----------------------------------------------------------------------------
(* The asynchronous path: RetryTransport<HttpTransport>::send_async        *)
(* (transport/retry.hpp, transport/http_transport.hpp).  Each send_async   *)
(* call has an id; its AsyncRetryState is retry_async[id].                  *)

Requests == 1..MaxRequests

AsyncPolicy == RetryPolicy(MaxAsyncRetries, TRUE, TRUE, TRUE)

HttpAsyncNew ==
    [client_ |-> TRUE,
     async_task_handle_ |-> FALSE,   \* the async task exists
     async_task_running_ |-> FALSE,
     async_queue_ |-> <<>>,
     in_send |-> 0]                  \* the request the task took from the queue

RetryStateNew ==
    [st |-> "none",                  \* "accepted": send_async returned Ok
     attempts |-> 0,
     delay |-> AsyncPolicy.initial_delay,
     timer |-> FALSE,                \* a retry timer is armed
     callbacks |-> 0,                \* history: invocations of the caller's callback
     result |-> NoOutcome,           \* history: what the caller's callback was given
     calls |-> 0,                    \* history: base_.send_async() calls that returned Ok
     seen |-> <<>>,                  \* history: the results the wrapped transport delivered
     delays |-> <<>>]                \* history: the periods of the retry timers started

(* ensure_async_task(): create_ok is the outcome of xTaskCreate *)
ensure_async_task(h, create_ok) ==
    IF h.async_task_handle_ THEN [h |-> h, ok |-> TRUE]
    ELSE IF ~create_ok THEN [h |-> h, ok |-> FALSE]
    ELSE [h |-> [h EXCEPT !.async_task_handle_ = TRUE, !.async_task_running_ = TRUE],
          ok |-> TRUE]

http_send_async(h, id, create_ok) ==
    LET Queued(e) == IF ~e.ok THEN e
                     ELSE [h |-> [e.h EXCEPT !.async_queue_ = Append(@, id)], ok |-> TRUE]
    IN  Queued(ensure_async_task(h, create_ok))

(* stop_async_task(): the task is given 100 ms to leave its loop and is   *)
(* then deleted where it stands; a send() still in progress is abandoned  *)
(* with its callback, and async_queue_ is left as it is.                   *)
stop_async_task(h) ==
    IF h.async_task_handle_
      THEN [h EXCEPT !.async_task_running_ = FALSE, !.async_task_handle_ = FALSE,
                     !.in_send = 0]
      ELSE h

http_async_disconnect(h) == [stop_async_task(h) EXCEPT !.client_ = FALSE]

(* handle_async_result(): TRUE when a retry is scheduled *)
async_retries(s, result) ==
    IF result.err = "ESP_OK"
      THEN /\ is_server_error(result) /\ AsyncPolicy.retry_on_server_error
           /\ s.attempts < AsyncPolicy.max_retries
      ELSE /\ is_retryable_error(AsyncPolicy, result.err)
           /\ s.attempts < AsyncPolicy.max_retries

(* schedule_retry(): the outcomes of xTimerCreate and xTimerStart *)
schedule_retry(s, create_ok, start_ok) ==
    IF ~create_ok
      THEN [s EXCEPT !.callbacks = @ + 1, !.result = Outcome("ESP_ERR_NO_MEM", 0)]
    ELSE IF ~start_ok
      THEN [s EXCEPT !.callbacks = @ + 1, !.result = Outcome("ESP_FAIL", 0)]
    ELSE [s EXCEPT !.timer = TRUE, !.delays = Append(@, s.delay)]

handle_async_result(s, result, create_ok, start_ok) ==
    LET s1 == [s EXCEPT !.seen = Append(@, result)]
    IN  IF async_retries(s1, result) THEN schedule_retry(s1, create_ok, start_ok)
        ELSE [s1 EXCEPT !.callbacks = @ + 1, !.result = result]

AsyncResults(h) ==
    IF ~h.client_ THEN {Outcome("ESP_ERR_INVALID_STATE", 0)}
    ELSE {Outcome("ESP_OK", OK), Outcome("ESP_OK", SERVER_ERROR),
          Outcome("ESP_FAIL", 0), Outcome("ESP_ERR_INVALID_ARG", 0)}

AsyncIdle ==
    /\ http_async = HttpAsyncNew
    /\ retry_async = [id \in Requests |-> RetryStateNew]

(* RetryTransport::send_async, the calls numbered in order *)
A_SendAsync ==
    \E id \in Requests, create_ok \in BOOLEAN :
        /\ retry_async[id].st = "none"
        /\ \A j \in 1..(id - 1) : retry_async[j].st # "none"
        /\ \E r \in {http_send_async(http_async, id, create_ok)} :
             /\ http_async' = r.h
             /\ retry_async' = [retry_async EXCEPT
                                  ![id].st = IF r.ok THEN "accepted" ELSE "rejected",
                                  ![id].calls = IF r.ok THEN 1 ELSE 0]
        /\ UNCHANGED nonAsyncVars

(* async_task_loop(): take the front of the queue *)
A_TaskTake ==
    /\ http_async.async_task_handle_ /\ http_async.async_task_running_
    /\ http_async.in_send = 0
    /\ http_async.async_queue_ # <<>>
    /\ http_async' = [http_async EXCEPT !.in_send = Head(http_async.async_queue_),
                                        !.async_queue_ = Tail(@)]
    /\ UNCHANGED retry_async
    /\ UNCHANGED nonAsyncVars

(* async_task_loop(): send() returns and the request's callback runs *)
A_TaskSend ==
    /\ http_async.async_task_handle_ /\ http_async.in_send # 0
    /\ \E result \in AsyncResults(http_async), create_ok \in BOOLEAN, start_ok \in BOOLEAN :
         retry_async' = [retry_async EXCEPT ![http_async.in_send] =
                            handle_async_result(@, result, create_ok, start_ok)]
    /\ http_async' = [http_async EXCEPT !.in_send = 0]
    /\ UNCHANGED nonAsyncVars

(* schedule_retry()'s timer callback *)
A_RetryTimer ==
    \E id \in Requests, create_ok \in BOOLEAN :
        /\ retry_async[id].timer
        /\ \E r \in {http_send_async(http_async, id, create_ok)} :
             /\ http_async' = r.h
             /\ retry_async' = [retry_async EXCEPT
                   ![id].timer = FALSE,
                   ![id].calls = IF r.ok THEN @ + 1 ELSE @,
                   ![id].attempts = @ + 1,
                   ![id].delay = Min(@ * AsyncPolicy.backoff_multiplier,
                                     AsyncPolicy.max_delay)]
        /\ UNCHANGED nonAsyncVars

A_Connect ==
    /\ ~http_async.client_
    /\ http_async' = [http_async EXCEPT !.client_ = TRUE]
    /\ UNCHANGED retry_async
    /\ UNCHANGED nonAsyncVars

A_Disconnect ==
    /\ http_async.client_ \/ http_async.async_task_handle_
    /\ http_async' = http_async_disconnect(http_async)
    /\ UNCHANGED retry_async
    /\ UNCHANGED nonAsyncVars

AsyncNext ==
    \/ A_SendAsync
    \/ A_TaskTake
    \/ A_TaskSend
    \/ A_RetryTimer
    \/ A_Connect
    \/ A_Disconnect

----------------------------------------------------------------------------
(* Specifications *)

InitAuth == AuthInit /\ RetryIdle /\ WifiIdle /\ CloudIdle /\ AppIdle /\ AsyncIdle

SpecAuth == InitAuth /\ [][AuthNext]_vars

InitRetry == RetryInit /\ AuthIdle /\ WifiIdle /\ CloudIdle /\ AppIdle /\ AsyncIdle

SpecRetry == InitRetry /\ [][RetryNext]_vars

InitWifi == WifiInit /\ AuthIdle /\ RetryIdle /\ CloudIdle /\ AppIdle /\ AsyncIdle

SpecWifi == InitWifi /\ [][WifiNext]_vars

WifiOnly == AuthIdle /\ RetryIdle /\ CloudIdle /\ AppIdle /\ AsyncIdle

(* The same manager where IP events carry one of two addresses *)
InitWifiAddr == WifiAtBoot({"addr"}) /\ WifiOnly

SpecWifiAddr == InitWifiAddr /\ [][WifiNext]_vars

(* The same manager where init() may be given the large backoff configuration *)
InitWifiBackoff == WifiAtBoot({"backoff"}) /\ WifiOnly

SpecWifiBackoff == InitWifiBackoff /\ [][WifiNext]_vars

(* The same manager with the history of disconnect() requests *)
InitWifiManual == WifiAtBoot({"manual"}) /\ WifiOnly

SpecWifiManual == InitWifiManual /\ [][WifiNext]_vars

(* The same manager with the count of the ProvisioningFailed events of a session *)
InitWifiSession == WifiAtBoot({"session"}) /\ WifiOnly

SpecWifiSession == InitWifiSession /\ [][WifiNext]_vars

(* The same manager where the application may register a state-change callback *)
InitWifiCallback == WifiAtBoot({}) /\ WifiOnly

WifiCallbackNext == WifiNext \/ W_OnStateChange

SpecWifiCallback == InitWifiCallback /\ [][WifiCallbackNext]_vars

(* The same manager watched by another task: the disconnect handler is seen *)
(* between its write of conn_info_ and its set_state()                      *)
InitWifiObserved == WifiAtBoot({"addr"}) /\ WifiOnly

WifiObservedNext ==
    \/ WifiNext
    \/ W_StaDisconnectedClear
    \/ W_StaDisconnectedRest

SpecWifiObserved == InitWifiObserved /\ [][WifiObservedNext]_vars

InitCloud == CloudInit /\ RetryIdle /\ WifiIdle /\ AppIdle /\ AsyncIdle

SpecCloud == InitCloud /\ [][CloudNext]_vars

InitSession == CloudInit /\ RetryIdle /\ WifiIdle /\ AppIdle /\ AsyncIdle

SpecSession == InitSession /\ [][SessionNext]_vars

InitClient == ClientInit /\ RetryIdle /\ WifiIdle /\ AppIdle /\ AsyncIdle

SpecClient == InitClient /\ [][ClientNext]_vars

InitApp == AppInit /\ AuthIdle /\ RetryIdle /\ WifiIdle /\ CloudIdle /\ AsyncIdle

SpecApp == InitApp /\ [][AppNext]_vars

InitAsync == AsyncIdle /\ AuthIdle /\ RetryIdle /\ WifiIdle /\ CloudIdle /\ AppIdle

SpecAsync == InitAsync /\ [][AsyncNext]_vars

(* The async task and the timer service run whenever they have work *)
FairSpecAsync ==
    /\ InitAsync
    /\ [][AsyncNext]_vars
    /\ WF_vars(A_TaskTake)
    /\ WF_vars(A_TaskSend)
    /\ WF_vars(A_RetryTimer)

----------------------------------------------------------------------------
(* Claims about the auth session, checked under SpecAuth *)

(* C1: once the state is Revoked, no sequence of authenticate() and        *)
(* refresh() calls (clear_token() not called) makes state(), or the result *)
(* of authenticate(), Authenticated again.                                 *)
C1_RevokedIsTerminal ==
    sawRevoked =>
        /\ auth.state_ # "Authenticated"
        /\ ~(lastCall.op = "authenticate" /\ lastCall.state = "Authenticated")

(* C2: authenticate() called with a valid survivable token returns         *)
(* Authenticated, leaves the state Authenticated and issues no request.    *)
C2_FastPath ==
    (lastCall.op = "authenticate" /\ lastCall.pre_valid) =>
        /\ lastCall.state = "Authenticated"
        /\ auth.state_ = "Authenticated"
        /\ lastCall.wire = <<>>

C2_Witness ==
    /\ lastCall.op = "authenticate"
    /\ lastCall.pre_valid
    /\ auth.state_ = "Authenticated"

(* C9: no request to /auth/device or /auth/refresh is issued while the     *)
(* auth state is Revoked, the rest of the revoking call included.          *)
C9_NoAuthRequestWhileRevoked ==
    \A i \in 1..Len(lastCall.wire) : lastCall.wire[i].state # "Revoked"

(* C10: in every reachable state, Revoked implies that the survivable      *)
(* token is not valid.                                                     *)
C10_RevokedTokenCleared ==
    auth.state_ = "Revoked" => ~RtcAuthToken_is_valid(auth.rtc, now)

----------------------------------------------------------------------------
(* Claims about the retry decorator, checked under SpecRetry *)

RetryableError(o) == o.err # "ESP_OK" /\ is_retryable_error(policy_, o.err)

RetryEligible(o) ==
    \/ RetryableError(o)
    \/ o.err = "ESP_OK" /\ is_server_error(o) /\ policy_.retry_on_server_error

(* the wrapped transport fails retryably f times, then is not retry-eligible *)
FailsThen(f) ==
    /\ f < Len(script)
    /\ \A i \in 1..f : RetryableError(script[i])
    /\ ~RetryEligible(script[f + 1])

(* C3: when the wrapped transport fails with a retryable error on its first *)
(* f calls and then returns an outcome that is not retry-eligible, send()   *)
(* invokes it exactly min(f, max_retries) + 1 times and returns the outcome *)
(* of the last invocation.                                                  *)
C3_SendInvocations ==
    send_pc = "done" =>
        \A f \in 0..(Len(script) - 1) :
            FailsThen(f) =>
                /\ base_calls = Min(f, policy_.max_retries) + 1
                /\ send_ret = script[base_calls]

C3_Witness ==
    /\ send_pc = "done"
    /\ policy_.max_retries = 2
    /\ FailsThen(2)
    /\ script[3] = Outcome("ESP_OK", OK)
    /\ base_calls = 3
    /\ send_ret = script[3]

(* C19: a call of the wrapped transport that returns a response is followed *)
(* by another call exactly when the status is 5xx, retry_on_server_error is *)
(* set and fewer than max_retries retries (of either kind) were made before *)
(* it; otherwise send() returns that response.                              *)
C19_StatusRetry ==
    [][(send_pc = "loop" /\ base_calls < Len(script)
            /\ script[base_calls + 1].err = "ESP_OK")
          => LET result == script[base_calls + 1]
             IN  /\ base_calls' = base_calls + 1
                 /\ IF /\ result.status \in 500..599
                        /\ policy_.retry_on_server_error
                        /\ base_calls < policy_.max_retries
                       THEN send_pc' = "loop" /\ send_ret' = send_ret
                       ELSE send_pc' = "done" /\ send_ret' = result]_vars

(* one retry after a timeout and one after a 5xx use up max_retries = 2:    *)
(* the second 5xx is returned                                               *)
C19_Witness ==
    /\ send_pc = "done"
    /\ policy_ = RetryPolicy(2, TRUE, TRUE, TRUE)
    /\ script[1] = Outcome("ESP_ERR_TIMEOUT", 0)
    /\ script[2] = Outcome("ESP_OK", SERVER_ERROR)
    /\ script[3] = Outcome("ESP_OK", SERVER_ERROR)
    /\ base_calls = 3
    /\ slept = <<1000, 2000>>
    /\ send_ret = script[3]

(* C20: the classification of a transport error under each of the 8 flag    *)
(* combinations: timeout by retry_on_timeout; generic failure,              *)
(* invalid-state, out-of-memory and the HTTP client's connection errors by  *)
(* retry_on_connection_error; every other error is never retryable.         *)
C20_Classification ==
    \A err \in ErrNames :
        is_retryable_error(policy_, err) =
            IF err = "ESP_ERR_TIMEOUT" THEN policy_.retry_on_timeout
            ELSE IF err \in {"ESP_FAIL", "ESP_ERR_INVALID_STATE", "ESP_ERR_NO_MEM",
                             "ESP_ERR_HTTP_BASE", "ESP_ERR_HTTP_CONNECT",
                             "ESP_ERR_HTTP_CONNECTION_CLOSED"}
              THEN policy_.retry_on_connection_error
            ELSE FALSE

(* send() has classified a connection error of the HTTP client as retryable *)
(* with retry_on_connection_error the only flag set, and a timeout as final *)
C20_Witness ==
    /\ send_pc = "done"
    /\ policy_ = RetryPolicy(2, FALSE, FALSE, TRUE)
    /\ script[1] = Outcome("ESP_ERR_HTTP_CONNECT", 0)
    /\ script[2] = Outcome("ESP_ERR_TIMEOUT", 0)
    /\ base_calls = 2
    /\ send_ret = script[2]

----------------------------------------------------------------------------
(* Claims about the connection manager, checked under SpecWifi *)

(* C4: with max_retries = N > 0 and valid pending credentials, the          *)
(* disconnect events that follow Disconnected with retry counter 0 schedule *)
(* exactly N reconnect attempts: each of the first N starts the reconnect   *)
(* timer once and leaves Disconnected; every later one starts no timer,     *)
(* sets Failed and publishes WifiConnectionFailed.                          *)
C4_ReconnectLadder ==
    chain >= 0 =>
        /\ sched = Min(chain, wifi.config_.max_retries)
        /\ wifiOp = "sta_disconnected" /\ chain >= 1 =>
               IF chain <= wifi.config_.max_retries
                 THEN /\ wifi.arms = 1
                      /\ wifi.state_ = "Disconnected"
                      /\ wifi.published = <<"WifiDisconnected">>
                 ELSE /\ wifi.arms = 0
                      /\ wifi.state_ = "Failed"
                      /\ wifi.published = <<"WifiDisconnected", "WifiConnectionFailed">>

C4_Witness ==
    /\ wifiOp = "sta_disconnected"
    /\ wifi.config_.max_retries = 2
    /\ chain = 3
    /\ sched = 2
    /\ wifi.state_ = "Failed"

----------------------------------------------------------------------------
(* C5: with no cloud identity stored, init() fails and leaves              *)
(* NoCredentials, and no later start, stop, send, poll or timer callback   *)
(* sends a request to /auth/device or /auth/refresh (nor any other).       *)
C5_NoIdentityNoAuthRequest ==
    ~cloud.identity =>
        /\ ~authAsked
        /\ cloud.wire = <<>>
        /\ ~cloud.services
        /\ cloudOp # "init"
        /\ cloudOp = "init_failed" => cloud.state_ = "NoCredentials"

C5_Witness ==
    /\ ~cloud.identity
    /\ cloud.state_ = "NoCredentials"
    /\ cloudOp = "start"
    /\ RtcAuthToken_is_valid(auth.rtc, now)

(* C6 as stated: at the end of a poll cycle every polled command has       *)
(* exactly one acknowledgment request on the wire, in poll order.           *)
C6_OneAckRequestPerCommand ==
    (cloudOp = "process_all" /\ cmd_pos = 0) =>
        /\ Len(acked) = Len(cmd_buffer)
        /\ \A i \in 1..Len(acked) :
             /\ acked[i].id = cmd_buffer[i].id
             /\ acked[i].reqs = <<AckPath(cmd_buffer[i].id)>>

AckedSoFar ==
    IF cmd_pos >= 1 THEN cmd_pos - 1
    ELSE IF cloudOp = "process_all" THEN Len(cmd_buffer) ELSE 0

(* C6, amended: process_all() calls ack() once per polled command, in poll *)
(* order, whatever the handler's result and whether or not earlier         *)
(* acknowledgments failed; the call sends exactly one acknowledgment       *)
(* request when the client's authentication gate passes (not revoked, a    *)
(* needed refresh succeeds) and none otherwise; no command is taken twice.  *)
C6_OneAckCallPerCommand ==
    /\ Len(acked) = AckedSoFar
    /\ \A i \in 1..Len(acked) :
         /\ acked[i].id = cmd_buffer[i].id
         /\ acked[i].reqs = IF acked[i].gate THEN <<AckPath(cmd_buffer[i].id)>>
                            ELSE <<>>
         /\ acked[i].ack_ok => acked[i].gate

C6_Witness ==
    /\ cloudOp = "process_all" /\ cmd_pos = 0
    /\ Len(acked) = 2
    /\ ~acked[1].ack_ok
    /\ acked[2].result = "Unknown"
    /\ acked[2].reqs = <<AckPath("c2")>>

----------------------------------------------------------------------------
(* C7: start, stop and send_telemetry of the orchestrator are called from  *)
(* the main task only; event handlers and timer callbacks never call them.  *)
C7_MainContextOnly ==
    \A i \in 1..Len(app.calls) :
        app.calls[i].op \in {"start", "stop", "send_telemetry"}
            => app.calls[i].ctx = "main"

(* C8: every send_async call that returned Ok eventually has its callback  *)
(* invoked, exactly once.                                                   *)
C8_AcceptedSendCompletes ==
    \A id \in Requests :
        (retry_async[id].st = "accepted") ~> (retry_async[id].callbacks = 1)

----------------------------------------------------------------------------
(* Further claims about the auth session, checked under SpecAuth *)

(* C11: in every reachable state, Authenticated implies that the            *)
(* survivable token is valid: non-empty, CRC-valid and not expired.         *)
C11_AuthenticatedTokenValid ==
    auth.state_ = "Authenticated" => RtcAuthToken_is_valid(auth.rtc, now)

(* C12: from every reachable state of the provider,                         *)
(* handle_response_status(401) clears the token and sets TokenExpired,      *)
(* handle_response_status(403) clears the token and sets Revoked, and every *)
(* other status code leaves the token and the state as they were.           *)
C12_ResponseStatus ==
    \A code \in 100..599 :
        LET a2 == handle_response_status(auth, code)
        IN  IF code = UNAUTHORIZED
              THEN /\ a2.rtc = RtcAuthToken_clear(auth.rtc)
                   /\ ~RtcAuthToken_is_valid(a2.rtc, now)
                   /\ a2.state_ = "TokenExpired"
            ELSE IF code = FORBIDDEN
              THEN /\ a2.rtc = RtcAuthToken_clear(auth.rtc)
                   /\ ~RtcAuthToken_is_valid(a2.rtc, now)
                   /\ a2.state_ = "Revoked"
            ELSE a2 = auth

(* handle_response_status(401) has just run on a valid token *)
C12_Witness ==
    /\ lastCall.op = "handle_response_status"
    /\ lastCall.pre_valid
    /\ auth.state_ = "TokenExpired"
    /\ ~RtcString_is_valid(auth.rtc.token)

(* C13: once the state is Revoked, handle_response_status(code) leaves it   *)
(* Revoked for every status code, 401 included.                             *)
C13_RevokedSurvivesStatus ==
    [][(auth.state_ = "Revoked" /\ lastCall'.op = "handle_response_status")
          => auth'.state_ = "Revoked"]_vars

----------------------------------------------------------------------------
(* Claims about the client and its transport, checked under SpecClient *)

(* C14: get_auth_header() fails when the session is Revoked or holds no     *)
(* valid token, and the transport sends no request that lacks the           *)
(* Authorization header.                                                    *)
C14_NoRequestWithoutHeader ==
    /\ (is_revoked(auth) \/ ~RtcAuthToken_is_valid(auth.rtc, now))
           => ~get_auth_header(auth, now).ok
    /\ cloud.bare = <<>>

(* a request of execute() was sent and failed retryably: no answer, or 5xx *)
RetryableFailure ==
    /\ cloudOp = "execute"
    /\ ServiceRequests # <<>>
    /\ cloud.resp.status_code = 0 \/ cloud.resp.status_code >= 500

(* C18 as stated: a service request that fails retryably is re-issued, and  *)
(* the failure is reported only after max_retries retries.                  *)
C18_RetriedBeforeReported ==
    RetryableFailure => Len(ServiceRequests) = policy_.max_retries + 1

----------------------------------------------------------------------------
(* Claims about the orchestrator, checked under SpecSession *)

(* C15: start() on an initialized orchestrator that is not Revoked ends     *)
(* Revoked with a Revoked notification, or Error with a failure             *)
(* notification, or Authenticated with the timers running and a valid       *)
(* token behind it; start() while Revoked sends nothing.                    *)
C15_StartOutcomes ==
    (cloudOp = "start" /\ cloud.services) =>
        \/ /\ cloud.state_ = "Revoked"
           /\ ~cloud.timers
           /\ cloud.published = <<"Revoked">> \/ (cloud.published = <<>> /\ cloud.wire = <<>>)
        \/ /\ cloud.state_ = "Error"
           /\ cloud.published = <<"AuthFailed">>
        \/ /\ cloud.state_ = "Authenticated"
           /\ cloud.timers
           /\ cloud.published = <<"Authenticated">>
           /\ auth.state_ = "Authenticated"
           /\ RtcAuthToken_is_valid(auth.rtc, now)

(* C16: once the orchestrator is Revoked, stop() and start() leave it       *)
(* Revoked, send no request, and no timer of the orchestrator runs.         *)
C16_RevokedOutlivesStopStart ==
    [][(cloud.state_ = "Revoked" /\ now' = now /\ cloudOp' \in {"start", "stop"})
          => /\ cloud'.state_ = "Revoked"
             /\ cloud'.wire = <<>>
             /\ ~cloud'.timers
             /\ ~cloud.timers]_vars

(* start() has run on a Revoked orchestrator *)
C16_Witness ==
    /\ cloud.state_ = "Revoked"
    /\ cloudOp = "start"
    /\ cloud.published = <<>>
    /\ cloud.wire = <<>>
    /\ ~cloud.timers

(* C17: when the telemetry POST is answered 403, send_telemetry reports     *)
(* DeviceRevoked and leaves the orchestrator Revoked, its timers stopped    *)
(* and a Revoked notification published.                                    *)
C17_TelemetryRevocation ==
    (cloudOp = "send_telemetry" /\ cloud.resp.status_code = FORBIDDEN) =>
        /\ cloud.resp.error = "DeviceRevoked"
        /\ cloud.state_ = "Revoked"
        /\ ~cloud.timers
        /\ cloud.published = <<"Revoked">>

----------------------------------------------------------------------------
(* Claims about the reconnect backoff, checked under SpecWifiBackoff *)

(* min(initial * 2^n, max) in exact arithmetic: once the value has reached *)
(* max or 2^31, every further doubling stays at or above max.              *)
RECURSIVE ExactBackoff(_, _, _)
ExactBackoff(initial, max, n) ==
    IF n = 0 THEN u32_min(initial, max)
    ELSE IF ~u32_lt(initial, max) \/ initial.hi >= 32768 THEN max
    ELSE ExactBackoff(u32_mul(initial, 2), max, n - 1)

(* C22: for every retry count calculate_backoff() is                        *)
(* min(initial_backoff_ms * 2^retry_count, max_backoff_ms) in exact         *)
(* arithmetic, it never decreases when the retry count grows, and this is   *)
(* the delay the disconnect handler arms the reconnect timer with.          *)
C22_BackoffExact ==
    wifi.initialized_ =>
        /\ \A n \in 0..wifi.retry_count_ :
               /\ calculate_backoff([wifi EXCEPT !.retry_count_ = n])
                      = ExactBackoff(wifi.config_.initial_backoff_ms,
                                     wifi.config_.max_backoff_ms, n)
               /\ n > 0 => ~u32_lt(calculate_backoff([wifi EXCEPT !.retry_count_ = n]),
                                   calculate_backoff([wifi EXCEPT !.retry_count_ = n - 1]))
        /\ (wifiOp = "sta_disconnected" /\ wifi.arms = 1) =>
               wifi.reconnect_timer_.delay
                   = ExactBackoff(wifi.config_.initial_backoff_ms,
                                  wifi.config_.max_backoff_ms, wifi.retry_count_ - 1)

----------------------------------------------------------------------------
(* Claims about address events, checked under SpecWifiAddr *)

(* C23: after IP_EVENT_STA_GOT_IP, in whatever state the initialized manager *)
(* received it, the retry counter is 0, the reconnect timer is stopped, the  *)
(* stored ConnectionInfo is the one of the event and the state is Connected. *)
C23_AddressAcquired ==
    wifiOp = "got_ip" =>
        /\ wifi.retry_count_ = 0
        /\ ~wifi.reconnect_timer_.running
        /\ wifi.conn_info_.ip = wifi.got.ip
        /\ wifi.conn_info_.ip # 0
        /\ wifi.got.rssi # 0 => wifi.conn_info_.rssi = wifi.got.rssi
        /\ wifi.state_ = "Connected"

(* the second address arrived while a provisioning session was still subscribed *)
C23_Witness ==
    /\ wifiOp = "got_ip"
    /\ wifi.got = ConnectionInfo(2, 2)
    /\ wifi.prov_sub_
    /\ wifi.state_ = "Connected"
    /\ wifi.published = <<"WifiConnected">>

----------------------------------------------------------------------------
(* Claims about disconnect(), checked under SpecWifiManual *)

(* C24: from a successful disconnect() until the next connect() or          *)
(* start_provisioning(), also once the driver has delivered its disconnect  *)
(* event, the state is Disconnected, the reconnect timer is not armed and   *)
(* no connect call is issued; a second disconnect() in that state changes   *)
(* nothing.                                                                 *)
C24_ManualDisconnectStays ==
    wifi.manual =>
        /\ wifi.state_ = "Disconnected"
        /\ ~wifi.reconnect_timer_.running
        /\ wifi.connects = 0
        /\ wifi_disconnect(wifi, TRUE).w = wifi

----------------------------------------------------------------------------
(* Claims about provisioning, checked under SpecWifi *)

(* C25: while the state is Provisioning the reconnect timer is not armed, *)
(* and no operation that ends in Provisioning has issued a connect call.  *)
C25_ProvisioningExcludesReconnect ==
    wifi.state_ = "Provisioning" =>
        /\ ~wifi.reconnect_timer_.running
        /\ wifi.connects = 0

(* C26: on an initialized manager start_provisioning() without a proof of  *)
(* possession returns ESP_ERR_INVALID_ARG and leaves the manager as it was: *)
(* state, timers, connection, credentials, and nothing published or called *)
(* back.                                                                    *)
C26_NoPopChangesNothing ==
    wifi.initialized_ =>
        \A timeout_sec \in {0, 300}, disconnect_ok, init_ok, start_ok \in BOOLEAN :
            start_provisioning(wifi, FALSE, timeout_sec, disconnect_ok, init_ok, start_ok)
                = WErr(wifi, "ESP_ERR_INVALID_ARG")

(* start_provisioning() was refused for its argument while connected *)
C26_Witness ==
    /\ wifiOp = "start_provisioning"
    /\ wifi.ret = "ESP_ERR_INVALID_ARG"
    /\ wifi.state_ = "Connected"
    /\ wifi.conn_info_.ip # 0
    /\ wifi.published = <<>>
    /\ ~wifi.prov_sub_

----------------------------------------------------------------------------
(* Claims about the provisioning timeout, checked under SpecWifiSession *)

(* C27: when the handler of the provisioning timeout returns, the          *)
(* provisioning manager is stopped and released and its events are         *)
(* unsubscribed, the state is Failed, and ProvisioningFailed has been       *)
(* published exactly once since the session was started.                    *)
C27_TimeoutCancelsSession ==
    wifiOp = "on_prov_timeout" =>
        /\ ~wifi.prov_mgr_
        /\ ~wifi.prov_sub_
        /\ wifi.state_ = "Failed"
        /\ wifi.failed_events = 1

----------------------------------------------------------------------------
(* Claims about the state-change callback, checked under SpecWifiCallback *)

(* C29: with a callback registered, the callback invocations of an         *)
(* operation are, in order and each once, the <<old, new>> of those of its  *)
(* state updates that change the state; a same-state update invokes        *)
(* nothing.                                                                 *)
C29_CallbackPerChange ==
    wifi.state_callback_ =>
        /\ wifi.callbacks = SelectSeq(wifi.updates, LAMBDA u : u[1] # u[2])
        /\ \A i \in 1..Len(wifi.updates) :
               /\ i > 1 => wifi.updates[i][1] = wifi.updates[i - 1][2]
               /\ i = Len(wifi.updates) => wifi.updates[i][2] = wifi.state_

(* one operation made a same-state update and a changing one *)
C29_Witness ==
    /\ wifi.state_callback_
    /\ Len(wifi.updates) > Len(wifi.callbacks)
    /\ Len(wifi.callbacks) >= 1

----------------------------------------------------------------------------
(* Claims about connection_info(), checked under SpecWifiObserved *)

(* C28: whenever a task reads state() = Connected, connection_info() holds *)
(* the address of the latest IP event, never the cleared value.            *)
C28_ConnectedHasInfo ==
    wifi.state_ = "Connected" => wifi.conn_info_.ip # 0

----------------------------------------------------------------------------
(* Claims about needs_refresh(), checked under SpecAuth *)

(* C30: needs_refresh() is false when the session is Revoked; otherwise it *)
(* is true exactly when the token is not valid, or an expiry is set and    *)
(* now is no more than the refresh buffer before it, or past it.           *)
C30_NeedsRefreshTable ==
    needs_refresh(auth, now) =
        CASE auth.state_ = "Revoked" -> FALSE
          [] OTHER ->
               \/ ~RtcAuthToken_is_valid(auth.rtc, now)
               \/ /\ RtcTimestamp_is_valid(auth.rtc.expires_at)
                  /\ now + TOKEN_REFRESH_BUFFER >= RtcTimestamp_get(auth.rtc.expires_at)

(* needs_refresh() answered true exactly one buffer before the expiry *)
C30_Witness ==
    /\ lastCall.op = "needs_refresh"
    /\ lastCall.ok
    /\ lastCall.pre_valid
    /\ auth.state_ # "Revoked"
    /\ RtcTimestamp_get(auth.rtc.expires_at) = now + TOKEN_REFRESH_BUFFER

----------------------------------------------------------------------------
(* Claims about send_async() against send(), checked under SpecAsync *)

(* The request is accepted and nothing of it is left to run: no retry timer *)
(* is armed, it is not queued and the async task is not sending it.         *)
AsyncAtRest(id) ==
    /\ retry_async[id].st = "accepted"
    /\ ~retry_async[id].timer
    /\ http_async.in_send # id
    /\ \A i \in 1..Len(http_async.async_queue_) : http_async.async_queue_[i] # id

(* C21: an accepted send_async() that has nothing left to run has invoked  *)
(* on_complete once, with the result send() returns for the same policy    *)
(* and the same results of the wrapped transport, after as many calls of   *)
(* the wrapped transport and the same sequence of delays.                   *)
C21_AsyncRefinesSend ==
    \A id \in Requests :
        AsyncAtRest(id) =>
            LET sync == retry_send(AsyncPolicy, retry_async[id].seen)
            IN  /\ retry_async[id].callbacks = 1
                /\ sync.done
                /\ retry_async[id].result = sync.ret
                /\ retry_async[id].calls = sync.calls
                /\ retry_async[id].delays = sync.slept

----------------------------------------------------------------------------
(* Claims about send_telemetry(), checked under SpecSession *)

(* C31: in every state of the orchestrator, send_telemetry() of an empty *)
(* measurement set returns success and sends no request.                 *)
C31_EmptyTelemetryNoop ==
    \A encoded \in 0..1 :
        LET r == cm_send_telemetry(CloudBegin, now, 0, encoded,
                                   [r1 |-> Unasked, r2 |-> Unasked, ans |-> NoAnswer])
        IN  /\ r.resp.success
            /\ r.x.c.wire = <<>>

----------------------------------------------------------------------------
(* Claims about the orchestrator's timers, checked under SpecCloud *)

(* C32: while the orchestrator's timers run, their callbacks (the command *)
(* poll with its processing, the token check) send no request themselves. *)
C32_TimerCallbacksSendNothing ==
    [][(cloud.timers /\ now' = now
          /\ cloudOp' \in {"poll_commands", "process_all", "check_token_refresh"})
          => cloud'.wire = <<>>]_vars

(* RTC retention of the token: set(), clear(), a cold boot that zeroes the *)
(* memory, and a change of the stored bytes that leaves the CRC alone       *)

RtcBytesIn == {1, 2, 35}

RtcTokensIn == {<<>>} \cup {<<a>> : a \in RtcBytesIn}
                  \cup {<<a, b>> : a \in RtcBytesIn, b \in RtcBytesIn}

SameLength(str) == {d \in RtcTokensIn : Len(d) = Len(str)}

Changed(a, b) == Cardinality({i \in 1..Len(a) : a[i] # b[i]})

RtcCall(op, a2) == Call(op, auth, now, TRUE, a2.state_, <<>>)

Rtc_Set ==
    \E tok \in RtcTokensIn, exp \in {0, now + ShortTtl} :
        LET a2 == [auth EXCEPT !.rtc = RtcAuthToken_set(@, tok, exp)]
        IN  /\ auth' = a2
            /\ lastCall' = RtcCall("rtc_set", a2)
            /\ UNCHANGED <<now, sawRevoked>>
            /\ UNCHANGED nonAuthVars

Rtc_Clear ==
    LET a2 == [auth EXCEPT !.rtc = RtcAuthToken_clear(@)]
    IN  /\ auth' = a2
        /\ lastCall' = RtcCall("rtc_clear", a2)
        /\ UNCHANGED <<now, sawRevoked>>
        /\ UNCHANGED nonAuthVars

Rtc_ColdBoot ==
    LET a2 == [auth EXCEPT !.rtc = RtcAuthTokenZero]
    IN  /\ auth' = a2
        /\ lastCall' = RtcCall("cold_boot", a2)
        /\ UNCHANGED <<now, sawRevoked>>
        /\ UNCHANGED nonAuthVars

Rtc_Corrupt ==
    /\ lastCall.op = "rtc_set"
    /\ \E d \in SameLength(auth.rtc.token.data) \ {auth.rtc.token.data} :
        LET a2 == [auth EXCEPT !.rtc.token.data = d]
        IN  /\ auth' = a2
            /\ lastCall' = RtcCall(IF Changed(d, auth.rtc.token.data) = 1
                                   THEN "corrupt_one" ELSE "corrupt_many", a2)
            /\ UNCHANGED <<now, sawRevoked>>
            /\ UNCHANGED nonAuthVars

RtcNext == Rtc_Set \/ Rtc_Clear \/ Rtc_ColdBoot \/ Rtc_Corrupt \/ Tick

InitRtc == AuthIdle /\ RetryIdle /\ WifiIdle /\ CloudIdle /\ AppIdle /\ AsyncIdle

SpecRtc == InitRtc /\ [][RtcNext]_vars

ValidByParts(r, t) ==
    /\ r.token.length > 0
    /\ r.token.crc = Crc32Compute(<<r.token.length>> \o SubSeq(r.token.data, 1, r.token.length))
    /\ \/ r.expires_at.crc # Crc32Compute(<<r.expires_at.epoch_ms>>)
       \/ t < r.expires_at.epoch_ms

InitWifiRace == WifiAtBoot({}) /\ WifiOnly

WifiRaceNext ==
    \/ WifiNext
    \/ W_OnStateChange
    \/ W_StaDisconnectedExchange
    \/ W_StaDisconnectedReturn

SpecWifiRace == InitWifiRace /\ [][WifiRaceNext]_vars

(* C34: while the event task is delivering the state callback             *)
(* (old, Disconnected), state() returns Disconnected, whatever the other   *)
(* contexts (API calls, timer callbacks) do meanwhile.                     *)
C34_CallbackStateCurrent ==
    wifi.at = "callback" => wifi.state_ = "Disconnected"

(* RetryTransport::send() under policies with other delays than the default *)

DelaysIn == {500, 1000, 40000}

MaxDelaysIn == {1000, 30000}

MultipliersIn == {1, 2}

DelayOutcomes ==
    {Outcome("ESP_ERR_TIMEOUT", 0), Outcome("ESP_OK", OK), Outcome("ESP_OK", SERVER_ERROR)}

InitRetryDelay ==
    /\ \E n \in 0..MaxRetries, i \in DelaysIn, m \in MaxDelaysIn, k \in MultipliersIn :
           policy_ = [RetryPolicy(n, TRUE, TRUE, TRUE) EXCEPT !.initial_delay = i,
                                                             !.max_delay = m,
                                                             !.backoff_multiplier = k]
    /\ script \in [1..ScriptLen -> DelayOutcomes]
    /\ attempts = 0
    /\ delay = 0
    /\ base_calls = 0
    /\ slept = <<>>
    /\ send_ret = NoOutcome
    /\ send_pc = "idle"
    /\ AuthIdle /\ WifiIdle /\ CloudIdle /\ AppIdle /\ AsyncIdle

SpecRetryDelay == InitRetryDelay /\ [][RetryNext]_vars

RECURSIVE TotalSlept(_)
TotalSlept(naps) == IF naps = <<>> THEN 0 ELSE Head(naps) + TotalSlept(Tail(naps))

(* C35: whatever the policy, the delays one send() has slept add up to at  *)
(* most max_delay * max_retries.                                           *)
C35_SleepBounded ==
    TotalSlept(slept) <= policy_.max_delay * policy_.max_retries

(* Claims about a command poll with an unparsable answer, under SpecCloud *)

PollParseError ==
    /\ now' = now
    /\ cloudOp' = "poll_commands"
    /\ cloud'.resp.error = "ParseError"

(* C36 as stated: a poll whose answer cannot be parsed leaves an empty     *)
(* buffer, dispatches and acknowledges nothing, and leaves the orchestrator *)
(* state, the auth state, the token and the connection as they were.        *)
C36_ParseErrorChangesNothing ==
    [][PollParseError =>
          /\ cmd_buffer' = <<>> /\ cmd_pos' = 0 /\ acked' = <<>>
          /\ cloud'.published = <<>>
          /\ cloud'.state_ = cloud.state_
          /\ cloud'.timers = cloud.timers
          /\ cloud'.cc.transport_ = cloud.cc.transport_
          /\ cloud'.cc.http.connected_ = cloud.cc.http.connected_
          /\ auth' = auth]_vars

(* C36: a poll whose answer cannot be parsed leaves an empty buffer,       *)
(* dispatches and acknowledges nothing, and leaves the orchestrator state,  *)
(* its timers and the connection as they were; the auth state and the token *)
(* are what the client's authentication gate made of them before the        *)
(* request, and are unchanged when the gate asked the backend nothing.      *)
C36_ParseErrorKeepsGateResult ==
    [][PollParseError =>
          /\ cmd_buffer' = <<>> /\ cmd_pos' = 0 /\ acked' = <<>>
          /\ cloud'.published = <<>>
          /\ cloud'.state_ = cloud.state_
          /\ cloud'.timers = cloud.timers
          /\ cloud'.cc.transport_ = cloud.cc.transport_
          /\ cloud'.cc.http.connected_ = cloud.cc.http.connected_
          /\ \E r1, r2 \in CloudAuthResponses \cup {Unasked} :
                 \E e \in {ensure_auth(auth, now, cloud.credentials_valid, r1, r2)} :
                     /\ e.err = "None"
                     /\ auth' = e.a
                     /\ cloud'.wire = Paths(e.wire) \o <<COMMANDS>>
          /\ cloud'.wire = <<COMMANDS>> => auth' = auth]_vars

C36_Witness ==
    /\ cloudOp = "poll_commands"
    /\ cloud.resp.error = "ParseError"
    /\ cloud.wire = <<AUTH_REFRESH, COMMANDS>>
    /\ cloud.state_ = "Authenticated"
    /\ cmd_buffer = <<>>

(* Claims about the deferred cloud start and stop, under SpecApp *)

Drained == ~app.cloud_start_pending_ /\ ~app.cloud_stop_pending_

(* C37: with an orchestrator that is not revoked, once both pending flags  *)
(* are drained the session matches the last connectivity event: after a    *)
(* connect the orchestrator is not left stopped, after a disconnect it is  *)
(* stopped.                                                                *)
C37_SessionMatchesLink ==
    (Drained /\ app.cloud_ /\ app.state_ # "Revoked") =>
        /\ app.link = "up" => app.state_ # "Uninitialized"
        /\ app.link = "down" => app.state_ = "Uninitialized"

(* Claims about the retry counter, under SpecWifi *)

(* C38: a connect() call that succeeds starts a fresh reconnection cycle:  *)
(* after it the retry counter is 0.                                        *)
C38_ConnectResetsRetries ==
    [][(wifiOp' = "connect" /\ wifi'.ret = "ESP_OK") => wifi'.retry_count_ = 0]_vars

(* The wifi manager followed through an unlimited run of failed reconnect  *)
(* attempts: init, connect, disconnect, the link events and the timer      *)

InitWifiWrap == WifiAtBoot({"wrap"}) /\ WifiOnly

WifiWrapNext ==
    \/ W_Init
    \/ W_Connect
    \/ W_Disconnect
    \/ W_ReconnectTimer
    \/ W_StaDisconnected
    \/ W_GotIp

SpecWifiWrap == InitWifiWrap /\ [][WifiWrapNext]_vars

(* C39: with max_retries = 0, a disconnect event that starts the reconnect *)
(* timer never gives it a shorter delay than the timer start before it, as *)
(* long as no address was acquired and the retry state was not reset.      *)
C39_DelayNeverDecreases ==
    [][(wifiOp' = "sta_disconnected" /\ wifi'.arms = 1 /\ wifi.config_.max_retries = 0)
          => ~u32_lt(wifi'.reconnect_timer_.delay, wifi.last_delay)]_vars

(* The wifi manager with its timers served: the timer task runs the        *)
(* callback of every timer that stays armed. Events of the driver and of   *)
(* the provisioning manager, and the calls of the application, may or may  *)
(* not come.                                                               *)
FairSpecWifi ==
    /\ InitWifi
    /\ [][WifiNext]_vars
    /\ WF_vars(W_ProvTimeout)
    /\ WF_vars(W_ReconnectTimer)

(* C40: a manager in Provisioning whose timeout timer was started          *)
(* eventually leaves that state.                                           *)
C40_ProvisioningEnds ==
    (wifi.state_ = "Provisioning" /\ wifi.prov_timeout_timer_)
        ~> (wifi.state_ # "Provisioning")

====
